---- MODULE Spec2Model ----
(***************************************************************************)
(* A model of unitopia: quantities of the dimensions Length, Mass, Time    *)
(* and Money, their conversion factor tables, convert / normalize, the     *)
(* JSON parsers parse / tryParse and the dispatcher parseQuantityJson.     *)
(*                                                                         *)
(* Numbers.  The library only ever multiplies and divides numbers, so a    *)
(* JavaScript number is modelled exactly as an element of the              *)
(* multiplicative group of the rationals, extended with the IEEE special   *)
(* values: a number is NaN, a signed infinity, a signed zero, or a signed  *)
(* finite non-zero rational held as the non-zero exponents of its prime    *)
(* factorisation.  Products and quotients are exact (IEEE rounding of the  *)
(* last bit is not modelled); the special values follow IEEE 754.          *)
(*                                                                         *)
(* JSON text.  A text is a sequence of lexical tokens; JSONparse is a      *)
(* recursive-descent parser over the tokens and JSONstringify produces     *)
(* tokens, so that decoding and encoding are computations, and a text      *)
(* can be malformed.                                                       *)
(***************************************************************************)
EXTENDS Integers, Sequences, FiniteSets, TLC

VARIABLES pc, call, ret, now, factors, held

vars == <<pc, call, ret, now, factors, held>>

(***************************************************************************)
(* Bounds of the model.                                                    *)
(***************************************************************************)
\* the longest list handed to normalize
MaxLen == 2
\* the last reading of the clock (Date.now()); the clock starts at 1
MaxClock == 2

(***************************************************************************)
(* JavaScript numbers                                                      *)
(***************************************************************************)
\* the primes that occur in the literals of the three factor tables
Primes ==
  {2, 3, 5, 7, 11, 13, 17, 31, 73, 89, 97, 103, 127, 149, 251, 463, 641,
   1301, 4139, 5167, 6073, 8893, 30091, 52583, 166667, 296719, 2663231,
   16614203}

\* the exponents of the number 1: no prime occurs
ZeroExp == [p \in {} |-> 0]

NaN == [k |-> "nan", s |-> 1, e |-> ZeroExp]
Infinity == [k |-> "inf", s |-> 1, e |-> ZeroExp]
PosZero == [k |-> "zero", s |-> 1, e |-> ZeroExp]
NegZero == [k |-> "zero", s |-> -1, e |-> ZeroExp]
One == [k |-> "fin", s |-> 1, e |-> ZeroExp]
\* the value of a field that an object does not have (not a number)
Absent == [k |-> "absent", s |-> 1, e |-> ZeroExp]

RECURSIVE Multiplicity(_, _)
\* how often the prime p divides n > 0
Multiplicity(n, p) == IF n % p = 0 THEN 1 + Multiplicity(n \div p, p) ELSE 0

\* the integer literal n (its primes are all in Primes)
N(n) ==
  IF n = 0 THEN PosZero
  ELSE LET a == IF n < 0 THEN -n ELSE n
       IN [k |-> "fin", s |-> IF n < 0 THEN -1 ELSE 1,
           e |-> [p \in {q \in Primes : a % q = 0} |-> Multiplicity(a, p)]]

\* the exponent of the prime p in the finite number x
Exponent(x, p) == IF p \in DOMAIN x.e THEN x.e[p] ELSE 0

\* x * y
Mul(x, y) ==
  IF x.k = "nan" \/ y.k = "nan" THEN NaN
  ELSE IF (x.k = "inf" /\ y.k = "zero") \/ (x.k = "zero" /\ y.k = "inf") THEN NaN
  ELSE IF x.k = "inf" \/ y.k = "inf" THEN [Infinity EXCEPT !.s = x.s * y.s]
  ELSE IF x.k = "zero" \/ y.k = "zero" THEN [PosZero EXCEPT !.s = x.s * y.s]
  ELSE [k |-> "fin", s |-> x.s * y.s,
        e |-> [p \in {q \in DOMAIN x.e \cup DOMAIN y.e :
                        Exponent(x, q) + Exponent(y, q) # 0} |->
                 Exponent(x, p) + Exponent(y, p)]]

\* x / y
Div(x, y) ==
  IF x.k = "nan" \/ y.k = "nan" THEN NaN
  ELSE IF (x.k = "inf" /\ y.k = "inf") \/ (x.k = "zero" /\ y.k = "zero") THEN NaN
  ELSE IF x.k = "inf" \/ y.k = "zero" THEN [Infinity EXCEPT !.s = x.s * y.s]
  ELSE IF x.k = "zero" \/ y.k = "inf" THEN [PosZero EXCEPT !.s = x.s * y.s]
  ELSE [k |-> "fin", s |-> x.s * y.s,
        e |-> [p \in {q \in DOMAIN x.e \cup DOMAIN y.e :
                        Exponent(x, q) - Exponent(y, q) # 0} |->
                 Exponent(x, p) - Exponent(y, p)]]

RECURSIVE Product(_)
\* the product of a sequence of integer literals
Product(fs) == IF fs = <<>> THEN One ELSE Mul(N(Head(fs)), Product(Tail(fs)))

RECURSIVE Pow10(_)
Pow10(d) == IF d = 0 THEN One ELSE Mul(N(10), Pow10(d - 1))

\* a decimal literal m * 10^-d whose mantissa m is the product of fs
\* (a mantissa is wider than TLC's integers, so it is written factorised)
Decimal(fs, d) == Div(Product(fs), Pow10(d))

\* Number.isFinite(x)
IsFinite(x) == x.k \in {"zero", "fin"}

(***************************************************************************)
(* JavaScript values                                                       *)
(***************************************************************************)
\* A value held by a field: a primitive, or an object whose own fields the
\* library never reads (t = "object").  t is what typeof distinguishes,
\* with null apart.
JsUndefined == [t |-> "undefined", b |-> FALSE, n |-> Absent, s |-> ""]
JsNull == [t |-> "null", b |-> FALSE, n |-> Absent, s |-> ""]
JsObject == [t |-> "object", b |-> FALSE, n |-> Absent, s |-> ""]
JsBool(b) == [t |-> "boolean", b |-> b, n |-> Absent, s |-> ""]
JsNum(n) == [t |-> "number", b |-> FALSE, n |-> n, s |-> ""]
JsStr(s) == [t |-> "string", b |-> FALSE, n |-> Absent, s |-> s]

\* an object without fields
NoFields == [key \in {} |-> JsUndefined]

\* The argument of parse / tryParse: a text (its tokens), or a value p with,
\* when p is an object, its fields f.
TextData(toks) == [text |-> TRUE, toks |-> toks, p |-> JsUndefined, f |-> NoFields]
ValueData(p, f) == [text |-> FALSE, toks |-> <<>>, p |-> p, f |-> f]
ObjectData(f) == ValueData(JsObject, f)
\* no value at all (an unused slot of a record of the model)
NoData == ValueData([t |-> "none", b |-> FALSE, n |-> Absent, s |-> ""], NoFields)

\* o.key throws a TypeError when o is null or undefined
GetThrows(o) == o.p.t \in {"null", "undefined"}

\* o.key
Get(o, key) ==
  IF o.p.t = "object" /\ key \in DOMAIN o.f THEN o.f[key] ELSE JsUndefined

\* (key in o) throws a TypeError when o is not an object
InThrows(o) == o.p.t # "object"

\* key in o
In(key, o) == key \in DOMAIN o.f

\* a === b
StrictEquals(a, b) ==
  /\ a.t = b.t
  /\ CASE a.t = "number" -> a.n.k # "nan" /\ (a.n = b.n \/ (a.n.k = "zero" /\ b.n.k = "zero"))
       [] a.t = "string" -> a.s = b.s
       [] a.t = "boolean" -> a.b = b.b
       [] a.t = "object" -> FALSE
       [] OTHER -> TRUE

\* the strings of the model that are numeric literals, with their values
NumericStrings == [s \in {"", "15", "1000"} |->
  CASE s = "" -> PosZero [] s = "15" -> N(15) [] s = "1000" -> N(1000)]

\* Number(v)
ToNumber(v) ==
  CASE v.t = "number" -> v.n
    [] v.t = "null" -> PosZero
    [] v.t = "boolean" -> IF v.b THEN One ELSE PosZero
    [] v.t = "string" -> IF v.s \in DOMAIN NumericStrings THEN NumericStrings[v.s] ELSE NaN
    [] OTHER -> NaN

(***************************************************************************)
(* JSON text                                                               *)
(***************************************************************************)
\* A token: punctuation, a literal (string, number, true, false, null) or a
\* bare word that is no JSON literal.
Punct(c) == [k |-> c, p |-> JsUndefined]
Lit(p) == [k |-> "lit", p |-> p]
Bare(w) == [k |-> "bare", p |-> JsStr(w)]

\* the literals of the JSON grammar
IsJsonLiteral(p) ==
  \/ p.t \in {"string", "boolean", "null"}
  \/ p.t = "number" /\ IsFinite(p.n)

ParseFail == [ok |-> FALSE, next |-> 0, p |-> JsUndefined, f |-> NoFields]

RECURSIVE ParseValue(_, _)
RECURSIVE ParseMembers(_, _, _)
\* value := literal | "{" "}" | "{" members "}", read from token i on
ParseValue(toks, i) ==
  IF i > Len(toks) THEN ParseFail
  ELSE IF toks[i].k = "lit"
    THEN IF IsJsonLiteral(toks[i].p)
         THEN [ok |-> TRUE, next |-> i + 1, p |-> toks[i].p, f |-> NoFields]
         ELSE ParseFail
  ELSE IF toks[i].k = "{"
    THEN IF i + 1 <= Len(toks) /\ toks[i + 1].k = "}"
         THEN [ok |-> TRUE, next |-> i + 2, p |-> JsObject, f |-> NoFields]
         ELSE ParseMembers(toks, i + 1, NoFields)
  ELSE ParseFail

\* members := string ":" value ("," members)?, then "}"; a repeated key
\* keeps its last value
ParseMembers(toks, i, acc) ==
  IF i + 1 > Len(toks) THEN ParseFail
  ELSE IF toks[i].k # "lit" \/ toks[i + 1].k # ":" THEN ParseFail
  ELSE IF toks[i].p.t # "string" THEN ParseFail
  ELSE LET v == ParseValue(toks, i + 2)
       IN IF ~v.ok \/ v.next > Len(toks) THEN ParseFail
          ELSE LET acc2 == (toks[i].p.s :> v.p) @@ acc
               IN IF toks[v.next].k = "}"
                  THEN [ok |-> TRUE, next |-> v.next + 1, p |-> JsObject, f |-> acc2]
                  ELSE IF toks[v.next].k = ","
                  THEN ParseMembers(toks, v.next + 1, acc2)
                  ELSE ParseFail

\* JSON.parse(text): the decoded value, or ok = FALSE for a SyntaxError
JSONparse(toks) ==
  LET r == ParseValue(toks, 1)
  IN IF r.ok /\ r.next = Len(toks) + 1
     THEN [ok |-> TRUE, o |-> ValueData(r.p, r.f)]
     ELSE [ok |-> FALSE, o |-> NoData]

\* the order in which JSON.stringify writes the fields of the model's objects
KeyOrder == <<"dimension", "unit", "value", "updatedAt", "nope">>

\* the tokens of one value: NaN and the infinities are written null, -0 is
\* written 0
StringifyValue(p) ==
  CASE p.t = "number" ->
         IF ~IsFinite(p.n) THEN <<Lit(JsNull)>>
         ELSE IF p.n.k = "zero" THEN <<Lit(JsNum(PosZero))>>
         ELSE <<Lit(p)>>
    [] p.t = "object" -> <<Punct("{"), Punct("}")>>
    [] OTHER -> <<Lit(p)>>

RECURSIVE StringifyMembers(_, _, _)
\* the members from key number i on; a field holding undefined is left out
StringifyMembers(f, i, first) ==
  IF i > Len(KeyOrder) THEN <<>>
  ELSE IF KeyOrder[i] \notin DOMAIN f \/ f[KeyOrder[i]].t = "undefined"
    THEN StringifyMembers(f, i + 1, first)
  ELSE (IF first THEN <<>> ELSE <<Punct(",")>>)
       \o <<Lit(JsStr(KeyOrder[i])), Punct(":")>>
       \o StringifyValue(f[KeyOrder[i]])
       \o StringifyMembers(f, i + 1, FALSE)

\* JSON.stringify(o), for o other than undefined
JSONstringify(o) ==
  IF o.p.t = "object"
  THEN <<Punct("{")>> \o StringifyMembers(o.f, 1, TRUE) \o <<Punct("}")>>
  ELSE StringifyValue(o.p)

(***************************************************************************)
(* Units, dimension tags and quantities                                    *)
(***************************************************************************)
LENGTH_UNITS ==
  <<"Kilometer", "Meter", "Centimeter", "Millimeter", "Nautical Mile", "Mile",
    "Yard", "Foot", "Inch">>
MASS_UNITS ==
  <<"Kilogram", "Gram", "Milligram", "Short Ton", "Long Ton", "Tonne", "Pound",
    "Ounce">>
TIME_UNITS == <<"Week", "Day", "Hour", "Minute", "Second">>
CRYPTO_MONEY_UNITS == <<"BTC", "BCH", "ETH", "XNO", "USDT">>
MONEY_UNITS ==
  <<"AUD", "BRL", "CAD", "CHF", "CNY", "CZK", "DKK", "EUR", "GBP", "HKD", "HUF",
    "ILS", "JPY", "MXN", "MYR", "NOK", "NZD", "PHP", "PLN", "SGD", "SEK", "TWD",
    "THB", "TRY", "USD">> \o CRYPTO_MONEY_UNITS

LENGTH_DIMENSION == "Length"
MASS_DIMENSION == "Mass"
TIME_DIMENSION == "Time"
MONEY_DIMENSION == "Money"

\* a faulty includes, which finds every unit (C2 must tell it from the code's)
IncludesAnything(units, unit) == TRUE

\* units.includes(unit)
Includes(units, unit) == \E i \in 1..Len(units) : units[i] = unit

\* the elements of an array
Elements(units) == {units[i] : i \in 1..Len(units)}

\* new Length(value, unit), new Mass(value, unit), new Time(value, unit):
\* the instance's fields; updatedAt is a field of Money alone
NewLength(value, unit) ==
  [dimension |-> LENGTH_DIMENSION, value |-> value, unit |-> unit, updatedAt |-> Absent]
NewMass(value, unit) ==
  [dimension |-> MASS_DIMENSION, value |-> value, unit |-> unit, updatedAt |-> Absent]
NewTime(value, unit) ==
  [dimension |-> TIME_DIMENSION, value |-> value, unit |-> unit, updatedAt |-> Absent]
\* new Money(value, unit, updatedAt)
NewMoney(value, unit, updatedAt) ==
  [dimension |-> MONEY_DIMENSION, value |-> value, unit |-> unit, updatedAt |-> updatedAt]

\* a faulty object form, which leaves updatedAt out (C17 must tell it from
\* the code's)
ObjectFormWithoutUpdatedAt(q) ==
  ObjectData(
    [key \in {"dimension", "unit", "value"} |->
       CASE key = "dimension" -> JsStr(q.dimension)
         [] key = "unit" -> JsStr(q.unit)
         [] key = "value" -> JsNum(q.value)])

\* the own properties of an instance, which are what JSON.stringify writes
\* and what a parser reads when it is given the instance
ObjectForm(q) ==
  ObjectData(
    [key \in (IF q.updatedAt = Absent THEN {"dimension", "unit", "value"}
              ELSE {"dimension", "unit", "value", "updatedAt"}) |->
       CASE key = "dimension" -> JsStr(q.dimension)
         [] key = "unit" -> JsStr(q.unit)
         [] key = "value" -> JsNum(q.value)
         [] key = "updatedAt" -> JsNum(q.updatedAt)])

\* no quantity (an unused slot of a record of the model)
NoQuantity == [dimension |-> "", value |-> Absent, unit |-> "", updatedAt |-> Absent]

(***************************************************************************)
(* Conversion factor tables: each cell is the source's expression          *)
(***************************************************************************)
generateLengthConversionFactors ==
  LET km_to_mi == Decimal(<<2, 11, 17, 16614203>>, 10)  \* 0.6213711922
      mi_to_km == Div(N(1), km_to_mi)  \* 1 / km_to_mi
      m_to_ft == Decimal(<<5, 31, 127, 166667>>, 9)  \* 3.280839895
      ft_to_m == Div(N(1), m_to_ft)  \* 1 / m_to_ft
  IN
  ("Kilometer" :> (
       ("Kilometer" :> N(1))  \* 1
       @@ ("Meter" :> N(1000))  \* 1000
       @@ ("Centimeter" :> Mul(N(1000), N(100)))  \* 1000 * 100
       @@ ("Millimeter" :> Mul(Mul(N(1000), N(100)), N(10)))  \* 1000 * 100 * 10
       @@ ("Nautical Mile" :> Div(N(1), Decimal(<<2, 2, 463>>, 3)))  \* 1 / 1.852
       @@ ("Mile" :> km_to_mi)  \* km_to_mi
       @@ ("Yard" :> Div(Mul(km_to_mi, N(5280)), N(3)))  \* (km_to_mi * 5280) / 3
       @@ ("Foot" :> Mul(km_to_mi, N(5280)))  \* km_to_mi * 5280
       @@ ("Inch" :> Mul(Mul(km_to_mi, N(5280)), N(12)))  \* km_to_mi * 5280 * 12
     ))
  @@ ("Meter" :> (
       ("Kilometer" :> Div(N(1), N(1000)))  \* 1 / 1000
       @@ ("Meter" :> N(1))  \* 1
       @@ ("Centimeter" :> N(100))  \* 100
       @@ ("Millimeter" :> Mul(N(100), N(10)))  \* 100 * 10
       @@ ("Nautical Mile" :> Div(N(1), N(1852)))  \* 1 / 1852
       @@ ("Mile" :> Div(m_to_ft, N(5280)))  \* m_to_ft / 5280
       @@ ("Yard" :> Div(m_to_ft, N(3)))  \* m_to_ft / 3
       @@ ("Foot" :> m_to_ft)  \* m_to_ft
       @@ ("Inch" :> Mul(m_to_ft, N(12)))  \* m_to_ft * 12
     ))
  @@ ("Centimeter" :> (
       ("Kilometer" :> Div(Div(N(1), N(100)), N(1000)))  \* 1 / 100 / 1000
       @@ ("Meter" :> Div(N(1), N(100)))  \* 1 / 100
       @@ ("Centimeter" :> N(1))  \* 1
       @@ ("Millimeter" :> N(10))  \* 10
       @@ ("Nautical Mile" :> Div(Div(N(1), N(100)), N(1852)))  \* 1 / 100 / 1852
       @@ ("Mile" :> Div(Mul(Div(N(1), N(100)), m_to_ft), N(5280)))  \* ((1 / 100) * m_to_ft) / 5280
       @@ ("Yard" :> Div(Mul(Div(N(1), N(100)), m_to_ft), N(3)))  \* ((1 / 100) * m_to_ft) / 3
       @@ ("Foot" :> Mul(Div(N(1), N(100)), m_to_ft))  \* (1 / 100) * m_to_ft
       @@ ("Inch" :> Mul(Mul(Div(N(1), N(100)), m_to_ft), N(12)))  \* (1 / 100) * m_to_ft * 12
     ))
  @@ ("Millimeter" :> (
       ("Kilometer" :> Div(Div(Div(N(1), N(10)), N(100)), N(1000)))  \* 1 / 10 / 100 / 1000
       @@ ("Meter" :> Div(Div(N(1), N(10)), N(100)))  \* 1 / 10 / 100
       @@ ("Centimeter" :> Div(N(1), N(10)))  \* 1 / 10
       @@ ("Millimeter" :> N(1))  \* 1
       @@ ("Nautical Mile" :> Div(Div(N(1), N(1000)), N(1852)))  \* 1 / 1000 / 1852
       @@ ("Mile" :> Div(Mul(Div(N(1), N(1000)), m_to_ft), N(5280)))  \* ((1 / 1000) * m_to_ft) / 5280
       @@ ("Yard" :> Div(Div(Mul(Div(N(1), N(1000)), m_to_ft), N(5280)), N(3)))  \* ((1 / 1000) * m_to_ft) / 5280 / 3
       @@ ("Foot" :> Mul(Div(N(1), N(1000)), m_to_ft))  \* (1 / 1000) * m_to_ft
       @@ ("Inch" :> Mul(Mul(Div(N(1), N(1000)), m_to_ft), N(12)))  \* (1 / 1000) * m_to_ft * 12
     ))
  @@ ("Nautical Mile" :> (
       ("Kilometer" :> Div(N(1), Decimal(<<2, 2, 463>>, 3)))  \* 1 / 1.852
       @@ ("Meter" :> Div(N(1), N(1852)))  \* 1 / 1852
       @@ ("Centimeter" :> Div(N(100), N(1852)))  \* 100 / 1852
       @@ ("Millimeter" :> Div(N(1000), N(1852)))  \* 1000 / 1852
       @@ ("Nautical Mile" :> N(1))  \* 1
       @@ ("Mile" :> Decimal(<<2, 2, 2, 7, 13, 103, 103, 149>>, 9))  \* 1.150779448
       @@ ("Yard" :> Mul(Decimal(<<2, 2, 2, 7, 13, 103, 103, 149>>, 9), N(1760)))  \* 1.150779448 * 1760
       @@ ("Foot" :> Mul(Decimal(<<2, 2, 2, 7, 13, 103, 103, 149>>, 9), N(5280)))  \* 1.150779448 * 5280
       @@ ("Inch" :> Mul(Mul(Decimal(<<2, 2, 2, 7, 13, 103, 103, 149>>, 9), N(5280)), N(12)))  \* 1.150779448 * 5280 * 12
     ))
  @@ ("Mile" :> (
       ("Kilometer" :> mi_to_km)  \* mi_to_km
       @@ ("Meter" :> Mul(mi_to_km, N(1000)))  \* mi_to_km * 1000
       @@ ("Centimeter" :> Mul(Mul(mi_to_km, N(1000)), N(100)))  \* mi_to_km * 1000 * 100
       @@ ("Millimeter" :> Mul(Mul(mi_to_km, N(1000)), N(1000)))  \* mi_to_km * 1000 * 1000
       @@ ("Nautical Mile" :> Div(mi_to_km, Decimal(<<2, 2, 463>>, 3)))  \* mi_to_km / 1.852
       @@ ("Mile" :> N(1))  \* 1
       @@ ("Yard" :> Div(N(5280), N(3)))  \* 5280 / 3
       @@ ("Foot" :> N(5280))  \* 5280
       @@ ("Inch" :> Mul(N(5280), N(12)))  \* 5280 * 12
     ))
  @@ ("Yard" :> (
       ("Kilometer" :> Div(Mul(N(3), ft_to_m), N(1000)))  \* (3 * ft_to_m) / 1000
       @@ ("Meter" :> Mul(N(3), ft_to_m))  \* 3 * ft_to_m
       @@ ("Centimeter" :> Mul(Mul(N(3), ft_to_m), N(100)))  \* 3 * ft_to_m * 100
       @@ ("Millimeter" :> Mul(Mul(N(3), ft_to_m), N(1000)))  \* 3 * ft_to_m * 1000
       @@ ("Nautical Mile" :> Mul(Mul(Div(N(1), N(1760)), mi_to_km), Decimal(<<2, 2, 463>>, 3)))  \* (1 / 1760) * mi_to_km * 1.852
       @@ ("Mile" :> Div(N(3), N(5280)))  \* 3 / 5280
       @@ ("Yard" :> N(1))  \* 1
       @@ ("Foot" :> N(3))  \* 3
       @@ ("Inch" :> Mul(N(3), N(12)))  \* 3 * 12
     ))
  @@ ("Foot" :> (
       ("Kilometer" :> Div(ft_to_m, N(1000)))  \* ft_to_m / 1000
       @@ ("Meter" :> ft_to_m)  \* ft_to_m
       @@ ("Centimeter" :> Mul(ft_to_m, N(100)))  \* ft_to_m * 100
       @@ ("Millimeter" :> Mul(ft_to_m, N(1000)))  \* ft_to_m * 1000
       @@ ("Nautical Mile" :> Mul(Mul(Div(N(1), N(5280)), mi_to_km), Decimal(<<2, 2, 463>>, 3)))  \* (1 / 5280) * mi_to_km * 1.852
       @@ ("Mile" :> Div(N(1), N(5280)))  \* 1 / 5280
       @@ ("Yard" :> Div(N(1), N(3)))  \* 1 / 3
       @@ ("Foot" :> N(1))  \* 1
       @@ ("Inch" :> N(12))  \* 12
     ))
  @@ ("Inch" :> (
       ("Kilometer" :> Div(Mul(Div(N(1), N(12)), ft_to_m), N(1000)))  \* ((1 / 12) * ft_to_m) / 1000
       @@ ("Meter" :> Mul(Div(N(1), N(12)), ft_to_m))  \* (1 / 12) * ft_to_m
       @@ ("Centimeter" :> Mul(Mul(Div(N(1), N(12)), ft_to_m), N(100)))  \* (1 / 12) * ft_to_m * 100
       @@ ("Millimeter" :> Mul(Mul(Div(N(1), N(12)), ft_to_m), N(1000)))  \* (1 / 12) * ft_to_m * 1000
       @@ ("Nautical Mile" :> Mul(Mul(Div(Div(N(1), N(5280)), N(12)), mi_to_km), Decimal(<<2, 2, 463>>, 3)))  \* (1 / 5280 / 12) * mi_to_km * 1.852
       @@ ("Mile" :> Div(Div(N(1), N(5280)), N(12)))  \* 1 / 5280 / 12
       @@ ("Yard" :> Div(Div(N(1), N(12)), N(3)))  \* 1 / 12 / 3
       @@ ("Foot" :> Div(N(1), N(12)))  \* 1 / 12
       @@ ("Inch" :> N(1))  \* 1
     ))

generateMassConversionFactors ==
  LET kg_to_lb == Decimal(<<2, 4139, 2663231>>, 10)  \* 2.2046226218
      lb_to_kg == Div(N(1), kg_to_lb)  \* 1 / kg_to_lb
  IN
  ("Kilogram" :> (
       ("Kilogram" :> N(1))  \* 1
       @@ ("Gram" :> N(1000))  \* 1000
       @@ ("Milligram" :> N(100000))  \* 100000
       @@ ("Short Ton" :> Div(kg_to_lb, N(2000)))  \* kg_to_lb / 2000
       @@ ("Long Ton" :> Decimal(<<5, 17, 89, 1301>>, 10))  \* 0.0009842065
       @@ ("Tonne" :> Decimal(<<>>, 3))  \* 0.001
       @@ ("Pound" :> kg_to_lb)  \* kg_to_lb
       @@ ("Ounce" :> Mul(kg_to_lb, N(16)))  \* kg_to_lb * 16
     ))
  @@ ("Gram" :> (
       ("Kilogram" :> Div(N(1), N(1000)))  \* 1 / 1000
       @@ ("Gram" :> N(1))  \* 1
       @@ ("Milligram" :> N(1000))  \* 1000
       @@ ("Short Ton" :> Div(Mul(Div(N(1), N(1000)), kg_to_lb), N(2000)))  \* ((1 / 1000) * kg_to_lb) / 2000
       @@ ("Long Ton" :> Decimal(<<2, 2, 73, 641, 52583>>, 16))  \* 9.842065276e-7
       @@ ("Tonne" :> Decimal(<<>>, 6))  \* 0.000001
       @@ ("Pound" :> Mul(Div(N(1), N(1000)), kg_to_lb))  \* (1 / 1000) * kg_to_lb
       @@ ("Ounce" :> Mul(Mul(Div(N(1), N(1000)), kg_to_lb), N(16)))  \* (1 / 1000) * kg_to_lb * 16
     ))
  @@ ("Milligram" :> (
       ("Kilogram" :> Div(N(1), N(100000)))  \* 1 / 100000
       @@ ("Gram" :> Div(N(1), N(1000)))  \* 1 / 1000
       @@ ("Milligram" :> N(1))  \* 1
       @@ ("Short Ton" :> Div(Mul(Div(N(1), N(100000)), kg_to_lb), N(2000)))  \* ((1 / 100000) * kg_to_lb) / 2000
       @@ ("Long Ton" :> Decimal(<<2, 2, 73, 641, 52583>>, 19))  \* 9.842065276e-10
       @@ ("Tonne" :> Decimal(<<>>, 9))  \* 1e-9
       @@ ("Pound" :> Mul(Div(N(1), N(100000)), kg_to_lb))  \* (1 / 100000) * kg_to_lb
       @@ ("Ounce" :> Mul(Mul(Div(N(1), N(100000)), kg_to_lb), N(16)))  \* (1 / 100000) * kg_to_lb * 16
     ))
  @@ ("Short Ton" :> (
       ("Kilogram" :> Mul(N(2000), lb_to_kg))  \* 2000 * lb_to_kg
       @@ ("Gram" :> Mul(Mul(N(2000), lb_to_kg), N(1000)))  \* 2000 * lb_to_kg * 1000
       @@ ("Milligram" :> Mul(Mul(N(2000), lb_to_kg), N(1000000)))  \* 2000 * lb_to_kg * 1000000
       @@ ("Short Ton" :> N(1))  \* 1
       @@ ("Long Ton" :> Decimal(<<30091, 296719>>, 10))  \* 0.8928571429
       @@ ("Tonne" :> Decimal(<<2, 7, 11, 97, 6073>>, 8))  \* 0.90718474
       @@ ("Pound" :> N(2000))  \* 2000
       @@ ("Ounce" :> Mul(N(2000), N(16)))  \* 2000 * 16
     ))
  @@ ("Long Ton" :> (
       ("Kilogram" :> Decimal(<<2, 2, 2, 2, 2, 7, 7, 11, 97, 6073>>, 7))  \* 1016.0469088
       @@ ("Gram" :> Decimal(<<2, 2, 2, 2, 2, 7, 7, 11, 97, 6073>>, 4))  \* 1016046.9088
       @@ ("Milligram" :> Decimal(<<2, 2, 2, 2, 2, 7, 7, 11, 97, 6073>>, 1))  \* 1016046908.8
       @@ ("Short Ton" :> Decimal(<<2, 2, 2, 2, 7>>, 2))  \* 1.12
       @@ ("Long Ton" :> N(1))  \* 1
       @@ ("Tonne" :> Decimal(<<2, 2, 2, 2, 2, 7, 7, 11, 97, 6073>>, 10))  \* 1.0160469088
       @@ ("Pound" :> N(2240))  \* 2240
       @@ ("Ounce" :> Mul(N(2240), N(16)))  \* 2240 * 16
     ))
  @@ ("Tonne" :> (
       ("Kilogram" :> N(1000))  \* 1000
       @@ ("Gram" :> Mul(N(1000), N(1000)))  \* 1000 * 1000
       @@ ("Milligram" :> Mul(Mul(N(1000), N(1000)), N(1000)))  \* 1000 * 1000 * 1000
       @@ ("Short Ton" :> Decimal(<<4139, 2663231>>, 10))  \* 1.1023113109
       @@ ("Long Ton" :> Decimal(<<2, 2, 73, 641, 52583>>, 10))  \* 0.9842065276
       @@ ("Tonne" :> N(1))  \* 1
       @@ ("Pound" :> Mul(N(1000), kg_to_lb))  \* 1000 * kg_to_lb
       @@ ("Ounce" :> Mul(Mul(N(1000), kg_to_lb), N(16)))  \* 1000 * kg_to_lb * 16
     ))
  @@ ("Pound" :> (
       ("Kilogram" :> lb_to_kg)  \* lb_to_kg
       @@ ("Gram" :> Mul(lb_to_kg, N(1000)))  \* lb_to_kg * 1000
       @@ ("Milligram" :> Mul(Mul(lb_to_kg, N(1000)), N(1000)))  \* lb_to_kg * 1000 * 1000
       @@ ("Short Ton" :> Div(N(1), N(2000)))  \* 1 / 2000
       @@ ("Long Ton" :> Decimal(<<2, 251, 8893>>, 10))  \* 0.0004464286
       @@ ("Tonne" :> Div(lb_to_kg, N(1000)))  \* lb_to_kg / 1000
       @@ ("Pound" :> N(1))  \* 1
       @@ ("Ounce" :> N(16))  \* 16
     ))
  @@ ("Ounce" :> (
       ("Kilogram" :> Mul(Div(N(1), N(16)), lb_to_kg))  \* (1 / 16) * lb_to_kg
       @@ ("Gram" :> Mul(Mul(Div(N(1), N(16)), lb_to_kg), N(1000)))  \* (1 / 16) * lb_to_kg * 1000
       @@ ("Milligram" :> Mul(Mul(Mul(Div(N(1), N(16)), lb_to_kg), N(1000)), N(1000)))  \* (1 / 16) * lb_to_kg * 1000 * 1000
       @@ ("Short Ton" :> Div(Div(N(1), N(16)), N(2000)))  \* 1 / 16 / 2000
       @@ ("Long Ton" :> Decimal(<<2, 3, 3, 3, 5167>>, 10))  \* 0.0000279018
       @@ ("Tonne" :> Div(Mul(Div(N(1), N(16)), lb_to_kg), N(1000)))  \* ((1 / 16) * lb_to_kg) / 1000
       @@ ("Pound" :> Div(N(1), N(16)))  \* 1 / 16
       @@ ("Ounce" :> N(1))  \* 1
     ))

generateTimeConversionFactors ==
  ("Week" :> (
       ("Week" :> N(1))  \* 1
       @@ ("Day" :> N(7))  \* 7
       @@ ("Hour" :> Mul(N(7), N(24)))  \* 7 * 24
       @@ ("Minute" :> Mul(Mul(N(7), N(24)), N(60)))  \* 7 * 24 * 60
       @@ ("Second" :> Mul(Mul(Mul(N(7), N(24)), N(60)), N(60)))  \* 7 * 24 * 60 * 60
     ))
  @@ ("Day" :> (
       ("Week" :> Div(N(1), N(7)))  \* 1 / 7
       @@ ("Day" :> N(1))  \* 1
       @@ ("Hour" :> N(24))  \* 24
       @@ ("Minute" :> Mul(N(24), N(60)))  \* 24 * 60
       @@ ("Second" :> Mul(Mul(N(24), N(60)), N(60)))  \* 24 * 60 * 60
     ))
  @@ ("Hour" :> (
       ("Week" :> Div(Div(N(1), N(7)), N(24)))  \* 1 / 7 / 24
       @@ ("Day" :> Div(N(1), N(24)))  \* 1 / 24
       @@ ("Hour" :> N(1))  \* 1
       @@ ("Minute" :> N(60))  \* 60
       @@ ("Second" :> Mul(N(60), N(60)))  \* 60 * 60
     ))
  @@ ("Minute" :> (
       ("Week" :> Div(Div(Div(N(1), N(7)), N(24)), N(60)))  \* 1 / 7 / 24 / 60
       @@ ("Day" :> Div(Div(N(1), N(24)), N(60)))  \* 1 / 24 / 60
       @@ ("Hour" :> Div(N(1), N(60)))  \* 1 / 60
       @@ ("Minute" :> N(1))  \* 1
       @@ ("Second" :> N(60))  \* 60
     ))
  @@ ("Second" :> (
       ("Week" :> Div(Div(Div(Div(N(1), N(7)), N(24)), N(60)), N(60)))  \* 1 / 7 / 24 / 60 / 60
       @@ ("Day" :> Div(Div(Div(N(1), N(24)), N(60)), N(60)))  \* 1 / 24 / 60 / 60
       @@ ("Hour" :> Div(Div(N(1), N(60)), N(60)))  \* 1 / 60 / 60
       @@ ("Minute" :> Div(N(1), N(60)))  \* 1 / 60
       @@ ("Second" :> N(1))  \* 1
     ))

\* LENGTH_CONVERSION_FACTORS, MASS_CONVERSION_FACTORS, TIME_CONVERSION_FACTORS:
\* each table is generated once, when its module is loaded
\* a faulty table of Length, with a row for a unit that LENGTH_UNITS lacks
\* (C11 must tell it from the code's)
LengthFactorsWithFurlong ==
  generateLengthConversionFactors @@ ("Furlong" :> generateLengthConversionFactors["Mile"])

LENGTH_CONVERSION_FACTORS == generateLengthConversionFactors

\* a faulty table of Mass, one entry of which divides by zero (C9 must tell
\* it from the code's)
MassFactorsDividingByZero ==
  [generateMassConversionFactors EXCEPT !["Gram"]["Kilogram"] = Div(One, PosZero)]

MASS_CONVERSION_FACTORS == generateMassConversionFactors

\* a faulty table of Time, whose entry from Week to Week is that from Week
\* to Day (C8 must tell it from the code's)
TimeFactorsWrongDiagonal ==
  [generateTimeConversionFactors EXCEPT !["Week"]["Week"] = N(7)]

TIME_CONVERSION_FACTORS == generateTimeConversionFactors

(***************************************************************************)
(* convert and normalize                                                   *)
(***************************************************************************)
\* a faulty Length.convert, which reads the table from toUnit to from.unit
\* (C7 must tell it from the code's)
LengthConvertSwapped(from, toUnit) ==
  LET value == Mul(from.value, factors.Length[toUnit][from.unit])
  IN NewLength(value, toUnit)

\* Length.convert(from, toUnit)
LengthConvert(from, toUnit) ==
  LET value == Mul(from.value, factors.Length[from.unit][toUnit])
  IN NewLength(value, toUnit)

\* Mass.convert(from, toUnit)
MassConvert(from, toUnit) ==
  LET value == Mul(from.value, factors.Mass[from.unit][toUnit])
  IN NewMass(value, toUnit)

\* Time.convert(from, toUnit)
TimeConvert(from, toUnit) ==
  LET value == Mul(from.value, factors.Time[from.unit][toUnit])
  IN NewTime(value, toUnit)

\* a faulty Length.normalize, which returns the list in reverse (C10 must
\* tell it from the code's)
LengthNormalizeReversed(lengths, toUnit) ==
  [i \in 1..Len(lengths) |-> LengthConvert(lengths[Len(lengths) + 1 - i], toUnit)]

\* Length.normalize(lengths, toUnit): lengths.map(l => Length.convert(l, toUnit))
LengthNormalize(lengths, toUnit) ==
  [i \in 1..Len(lengths) |-> LengthConvert(lengths[i], toUnit)]

\* Mass.normalize(times, toUnit)
MassNormalize(times, toUnit) ==
  [i \in 1..Len(times) |-> MassConvert(times[i], toUnit)]

\* Time.normalize(times, toUnit)
TimeNormalize(times, toUnit) ==
  [i \in 1..Len(times) |-> TimeConvert(times[i], toUnit)]

(***************************************************************************)
(* tryParse                                                                *)
(***************************************************************************)
\* An error message: a literal text followed by the string form of the
\* value interpolated into it (NoData when nothing is interpolated).
Message(text, interp) == [text |-> text, interp |-> interp]
NoMessage == Message("", NoData)

\* The object tryParse returns: keys are its own property names, error the
\* "error" property, quantity the "length" / "mass" / "time" / "money"
\* property, warnings the "warnings" property, ctx the remaining property
\* of an error object (value, unit, dimension, updatedAt or data).
ErrorResult(message, ctxKey, ctx) ==
  [keys |-> {"error", ctxKey}, error |-> message, quantity |-> NoQuantity,
   warnings |-> <<>>, ctx |-> ctx]
BareErrorResult(message) ==
  [keys |-> {"error"}, error |-> message, quantity |-> NoQuantity,
   warnings |-> <<>>, ctx |-> NoData]
QuantityResult(key, quantity) ==
  [keys |-> {key}, error |-> NoMessage, quantity |-> quantity,
   warnings |-> <<>>, ctx |-> NoData]
MoneyResult(money, warnings) ==
  [keys |-> {"money", "warnings"}, error |-> NoMessage, quantity |-> money,
   warnings |-> warnings, ctx |-> NoData]
NoResult ==
  [keys |-> {}, error |-> NoMessage, quantity |-> NoQuantity,
   warnings |-> <<>>, ctx |-> NoData]

\* What a call comes to: it threw an Error with a message, or it returned:
\* obj (tryParse's object), q (a quantity) or qs (a list of quantities);
\* callback lists the arguments of the calls made to onWarnings.
Threw(message) ==
  [threw |-> TRUE, message |-> message, obj |-> NoResult, q |-> NoQuantity,
   qs |-> <<>>, callback |-> <<>>]
Returned(q, callback) ==
  [threw |-> FALSE, message |-> NoMessage, obj |-> NoResult, q |-> q,
   qs |-> <<>>, callback |-> callback]
ReturnedObject(obj) ==
  [threw |-> FALSE, message |-> NoMessage, obj |-> obj, q |-> NoQuantity,
   qs |-> <<>>, callback |-> <<>>]
ReturnedList(qs) ==
  [threw |-> FALSE, message |-> NoMessage, obj |-> NoResult, q |-> NoQuantity,
   qs |-> qs, callback |-> <<>>]
NoReturn ==
  [threw |-> FALSE, message |-> NoMessage, obj |-> NoResult, q |-> NoQuantity,
   qs |-> <<>>, callback |-> <<>>]

\* a primitive as a value of its own
Value(p) == ValueData(p, NoFields)

\* typeof data === 'string' ? JSON.parse(data) : data
Decode(data) ==
  IF data.text THEN JSONparse(data.toks) ELSE [ok |-> TRUE, o |-> data]

\* the try block of Length.tryParse(data), dec being what its first line
\* comes to: what the block returns, or the error thrown in it
LengthTryParseTry(dec) ==
  LET o == dec.o
  IN IF ~dec.ok THEN Threw(Message("SyntaxError", NoData))
     ELSE IF GetThrows(o) THEN Threw(Message("TypeError", NoData))
     ELSE IF Get(o, "value").t # "number"
       THEN ReturnedObject(ErrorResult(Message("data.value is non-numeric", NoData), "value",
                        Value(Get(o, "value"))))
     ELSE IF InThrows(o) THEN Threw(Message("TypeError", NoData))
     ELSE IF ~In("unit", o) \/ Get(o, "unit").t # "string"
       THEN ReturnedObject(ErrorResult(Message("data.unit is missing or invalid", NoData), "unit",
                        Value(Get(o, "unit"))))
     ELSE IF ~Includes(LENGTH_UNITS, Get(o, "unit").s)
       THEN ReturnedObject(ErrorResult(Message("unsupported length unit", NoData), "unit",
                        Value(Get(o, "unit"))))
     ELSE LET length == NewLength(Get(o, "value").n, Get(o, "unit").s)
          IN IF ~StrictEquals(Get(o, "dimension"), JsStr(LENGTH_DIMENSION))
               THEN ReturnedObject(ErrorResult(Message("data.dimension is not " \o LENGTH_DIMENSION, NoData),
                                "dimension", Value(JsStr(length.dimension))))
             ELSE ReturnedObject(QuantityResult("length", length))

\* catch (err) of Length.tryParse(data), res being what the try block came to
LengthCatch(res, data) ==
  IF res.threw THEN ReturnedObject(ErrorResult(Message("invalid JSON", NoData), "data", data))
  ELSE res

\* Length.tryParse(data): the try block, and catch (err)
LengthTryParse(data) == LengthCatch(LengthTryParseTry(Decode(data)), data)

\* the try block of Mass.tryParse(data), dec being what its first line
\* comes to: what the block returns, or the error thrown in it
MassTryParseTry(dec) ==
  LET o == dec.o
  IN IF ~dec.ok THEN Threw(Message("SyntaxError", NoData))
     ELSE IF GetThrows(o) THEN Threw(Message("TypeError", NoData))
     ELSE IF Get(o, "value").t # "number"
       THEN ReturnedObject(ErrorResult(Message("data.value is non-numeric", NoData), "value",
                        Value(Get(o, "value"))))
     ELSE IF InThrows(o) THEN Threw(Message("TypeError", NoData))
     ELSE IF ~In("unit", o) \/ Get(o, "unit").t # "string"
       THEN ReturnedObject(ErrorResult(Message("data.unit is missing or invalid", NoData), "unit",
                        Value(Get(o, "unit"))))
     ELSE IF ~Includes(MASS_UNITS, Get(o, "unit").s)
       THEN ReturnedObject(ErrorResult(Message("unsupported length unit", NoData), "unit",
                        Value(Get(o, "unit"))))
     ELSE LET mass == NewMass(Get(o, "value").n, Get(o, "unit").s)
          IN IF ~StrictEquals(Get(o, "dimension"), JsStr(MASS_DIMENSION))
               THEN ReturnedObject(ErrorResult(Message("data.dimension is not " \o MASS_DIMENSION, NoData),
                                "dimension", Value(Get(o, "dimension"))))
             ELSE ReturnedObject(QuantityResult("mass", mass))

\* catch (err) of Mass.tryParse(data), res being what the try block came to
MassCatch(res, data) ==
  IF res.threw THEN ReturnedObject(ErrorResult(Message("invalid JSON", NoData), "data", data))
  ELSE res

\* Mass.tryParse(data): the try block, and catch (err)
MassTryParse(data) == MassCatch(MassTryParseTry(Decode(data)), data)

\* the try block of Time.tryParse(data), dec being what its first line
\* comes to: what the block returns, or the error thrown in it
TimeTryParseTry(dec) ==
  LET o == dec.o
  IN IF ~dec.ok THEN Threw(Message("SyntaxError", NoData))
     ELSE IF GetThrows(o) THEN Threw(Message("TypeError", NoData))
     ELSE IF Get(o, "value").t # "number"
       THEN ReturnedObject(BareErrorResult(Message("data.value is non-numeric", NoData)))
     ELSE IF InThrows(o) THEN Threw(Message("TypeError", NoData))
     ELSE IF ~In("unit", o) \/ Get(o, "unit").t # "string"
       THEN ReturnedObject(BareErrorResult(Message("data.unit is missing or invalid", NoData)))
     ELSE IF ~Includes(TIME_UNITS, Get(o, "unit").s)
       THEN ReturnedObject(BareErrorResult(Message("unsupported length unit: ", Value(Get(o, "unit")))))
     ELSE LET time == NewTime(Get(o, "value").n, Get(o, "unit").s)
          IN IF ~StrictEquals(Get(o, "dimension"), JsStr(time.dimension))
               THEN ReturnedObject(BareErrorResult(Message("data.dimension is not " \o time.dimension, NoData)))
             ELSE ReturnedObject(QuantityResult("time", time))

\* catch (err) of Time.tryParse(data), res being what the try block came to
TimeCatch(res, data) ==
  IF res.threw THEN ReturnedObject(BareErrorResult(Message("invalid JSON: ", data)))
  ELSE res

\* Time.tryParse(data): the try block, and catch (err)
TimeTryParse(data) == TimeCatch(TimeTryParseTry(Decode(data)), data)

\* a faulty warning, which does not carry the timestamp (C18 must tell it
\* from the code's)
MissingUpdatedAtUnstamped(currentTimestamp) ==
  [warning |-> "data.updatedAt is missing; using current timestamp",
   currentTimestamp |-> Absent]

\* the warning of a missing updatedAt
MissingUpdatedAt(currentTimestamp) ==
  [warning |-> "data.updatedAt is missing; using current timestamp",
   currentTimestamp |-> currentTimestamp]

\* the try block of Money.tryParse(data), with Date.now() reading t, dec being what its first line
\* comes to: what the block returns, or the error thrown in it
MoneyTryParseTry(dec, t) ==
  LET o == dec.o
  IN IF ~dec.ok THEN Threw(Message("SyntaxError", NoData))
     ELSE IF GetThrows(o) THEN Threw(Message("TypeError", NoData))
     ELSE IF Get(o, "value").t # "number"
       THEN ReturnedObject(ErrorResult(Message("data.value is non-numeric", NoData), "value",
                        Value(Get(o, "value"))))
     ELSE IF InThrows(o) THEN Threw(Message("TypeError", NoData))
     ELSE IF ~In("unit", o) \/ Get(o, "unit").t # "string"
       THEN ReturnedObject(BareErrorResult(Message("data.unit is missing or invalid", NoData)))
     ELSE IF ~Includes(MONEY_UNITS, Get(o, "unit").s)
       THEN ReturnedObject(ErrorResult(Message("unsupported currency (money unit)", NoData), "unit",
                        Value(Get(o, "unit"))))
     ELSE LET given == In("updatedAt", o)
              updatedAt == IF given THEN ToNumber(Get(o, "updatedAt")) ELSE N(t)
              warnings == IF given THEN <<>> ELSE <<MissingUpdatedAt(updatedAt)>>
              money == NewMoney(Get(o, "value").n, Get(o, "unit").s, updatedAt)
          IN IF given /\ ~IsFinite(updatedAt)
               THEN ReturnedObject(ErrorResult(Message("data.updatedAt is non-numeric or invalid", NoData),
                                "updatedAt", Value(JsNum(updatedAt))))
             ELSE IF ~StrictEquals(Get(o, "dimension"), JsStr(MONEY_DIMENSION))
               THEN ReturnedObject(ErrorResult(Message("data.dimension is not " \o MONEY_DIMENSION, NoData),
                                "dimension", Value(Get(o, "dimension"))))
             ELSE ReturnedObject(MoneyResult(money, warnings))

\* catch (err) of Money.tryParse(data), res being what the try block came to
MoneyCatch(res, data) ==
  IF res.threw THEN ReturnedObject(ErrorResult(Message("invalid JSON", NoData), "data", data))
  ELSE res

\* a faulty Money.tryParse, which lacks the catch clause (C1 must tell it
\* from the code's)
MoneyTryParseUncaught(data, t) == MoneyTryParseTry(Decode(data), t)

\* a faulty Money.tryParse, which returns the warnings with the error of
\* the dimension check (C26 must tell it from the code's)
MoneyTryParseKeepingWarnings(data, t) ==
  LET res == MoneyCatch(MoneyTryParseTry(Decode(data), t), data)
  IN IF ~res.threw
          /\ res.obj.error = Message("data.dimension is not " \o MONEY_DIMENSION, NoData)
       THEN ReturnedObject([res.obj EXCEPT !.keys = @ \cup {"warnings"},
                                           !.warnings = <<MissingUpdatedAt(N(t))>>])
     ELSE res

\* a faulty Money.tryParse, whose errors carry the time of the call (C30
\* must tell it from the code's)
MoneyTryParseStampingErrors(data, t) ==
  LET res == MoneyCatch(MoneyTryParseTry(Decode(data), t), data)
  IN IF ~res.threw /\ "error" \in res.obj.keys
       THEN ReturnedObject([res.obj EXCEPT !.ctx = Value(JsNum(N(t)))])
     ELSE res

\* Money.tryParse(data): the try block, and catch (err)
MoneyTryParse(data, t) == MoneyCatch(MoneyTryParseTry(Decode(data), t), data)

(***************************************************************************)
(* parse and parseQuantityJson                                             *)
(***************************************************************************)
\* Length.parse(data) after its first line, res being what tryParse came to
LengthParseResult(res) ==
  IF res.threw THEN res
  ELSE IF "error" \in res.obj.keys THEN Threw(res.obj.error)
  ELSE Returned(res.obj.quantity, <<>>)

\* Length.parse(data)
LengthParse(data) == LengthParseResult(LengthTryParse(data))

\* Mass.parse(data) after its first line, res being what tryParse came to
MassParseResult(res) ==
  IF res.threw THEN res
  ELSE IF "error" \in res.obj.keys THEN Threw(res.obj.error)
  ELSE Returned(res.obj.quantity, <<>>)

\* Mass.parse(data)
MassParse(data) == MassParseResult(MassTryParse(data))

\* Time.parse(data) after its first line, res being what tryParse came to
TimeParseResult(res) ==
  IF res.threw THEN res
  ELSE IF "error" \in res.obj.keys THEN Threw(res.obj.error)
  ELSE Returned(res.obj.quantity, <<>>)

\* Time.parse(data)
TimeParse(data) == TimeParseResult(TimeTryParse(data))

\* a faulty end of Money.parse, which calls onWarnings whatever the length
\* of the warnings list (C20 must tell it from the code's)
MoneyParseResultAlwaysCalling(res, onWarnings) ==
  IF res.threw THEN res
  ELSE IF "error" \in res.obj.keys THEN Threw(res.obj.error)
  ELSE IF onWarnings THEN Returned(res.obj.quantity, <<res.obj.warnings>>)
  ELSE Returned(res.obj.quantity, <<>>)

\* Money.parse(data, onWarnings) after its first line, res being what
\* tryParse came to
MoneyParseResult(res, onWarnings) ==
  IF res.threw THEN res
  ELSE IF "error" \in res.obj.keys THEN Threw(res.obj.error)
  ELSE IF onWarnings /\ Len(res.obj.warnings) > 0
    THEN Returned(res.obj.quantity, <<res.obj.warnings>>)
  ELSE Returned(res.obj.quantity, <<>>)

\* a faulty Money.parse, which does not look for the error property (C4
\* must tell it from the code's)
MoneyParseUnchecked(data, onWarnings, t) ==
  LET res == MoneyTryParse(data, t)
  IN IF res.threw THEN res
     ELSE IF onWarnings /\ Len(res.obj.warnings) > 0
       THEN Returned(res.obj.quantity, <<res.obj.warnings>>)
     ELSE Returned(res.obj.quantity, <<>>)

\* Money.parse(data, onWarnings), with Date.now() reading t; onWarnings
\* tells whether a callback is passed
MoneyParse(data, onWarnings, t) == MoneyParseResult(MoneyTryParse(data, t), onWarnings)

\* a faulty parseQuantityJson, whose case for Mass calls Length.parse (C5
\* must tell it from the code's)
parseQuantityJsonMisrouted(data, t) ==
  IF InThrows(data)
    THEN Threw(Message("TypeError: cannot use 'in' operator", NoData))
  ELSE IF ~In("dimension", data)
    THEN Threw(Message("quantity object does not contain required property \"dimension\"",
                       NoData))
  ELSE IF StrictEquals(Get(data, "dimension"), JsStr(LENGTH_DIMENSION)) THEN LengthParse(data)
  ELSE IF StrictEquals(Get(data, "dimension"), JsStr(MASS_DIMENSION)) THEN LengthParse(data)
  ELSE IF StrictEquals(Get(data, "dimension"), JsStr(TIME_DIMENSION)) THEN TimeParse(data)
  ELSE IF StrictEquals(Get(data, "dimension"), JsStr(MONEY_DIMENSION))
    THEN MoneyParse(data, FALSE, t)
  ELSE Threw(Message("unrecognized/unsupported quantity dimension: ",
                     Value(Get(data, "dimension"))))

\* a faulty parseQuantityJson, which tests data.dimension === undefined
\* where the code tests 'dimension' in data (C6 must tell it from the code's)
parseQuantityJsonUndefinedTest(data, t) ==
  IF GetThrows(data)
    THEN Threw(Message("TypeError: cannot read property", NoData))
  ELSE IF Get(data, "dimension").t = "undefined"
    THEN Threw(Message("quantity object does not contain required property \"dimension\"",
                       NoData))
  ELSE IF StrictEquals(Get(data, "dimension"), JsStr(LENGTH_DIMENSION)) THEN LengthParse(data)
  ELSE IF StrictEquals(Get(data, "dimension"), JsStr(MASS_DIMENSION)) THEN MassParse(data)
  ELSE IF StrictEquals(Get(data, "dimension"), JsStr(TIME_DIMENSION)) THEN TimeParse(data)
  ELSE IF StrictEquals(Get(data, "dimension"), JsStr(MONEY_DIMENSION))
    THEN MoneyParse(data, FALSE, t)
  ELSE Threw(Message("unrecognized/unsupported quantity dimension: ",
                     Value(Get(data, "dimension"))))

\* a faulty parseQuantityJson, whose default case calls Length.parse (C28
\* must tell it from the code's)
parseQuantityJsonDefaultingToLength(data, t) ==
  IF InThrows(data)
    THEN Threw(Message("TypeError: cannot use 'in' operator", NoData))
  ELSE IF ~In("dimension", data)
    THEN Threw(Message("quantity object does not contain required property \"dimension\"",
                       NoData))
  ELSE IF StrictEquals(Get(data, "dimension"), JsStr(MASS_DIMENSION)) THEN MassParse(data)
  ELSE IF StrictEquals(Get(data, "dimension"), JsStr(TIME_DIMENSION)) THEN TimeParse(data)
  ELSE IF StrictEquals(Get(data, "dimension"), JsStr(MONEY_DIMENSION))
    THEN MoneyParse(data, FALSE, t)
  ELSE LengthParse(data)

\* parseQuantityJson(data), with Date.now() reading t
parseQuantityJson(data, t) ==
  IF InThrows(data)
    THEN Threw(Message("TypeError: cannot use 'in' operator", NoData))
  ELSE IF ~In("dimension", data)
    THEN Threw(Message("quantity object does not contain required property \"dimension\"",
                       NoData))
  ELSE IF StrictEquals(Get(data, "dimension"), JsStr(LENGTH_DIMENSION)) THEN LengthParse(data)
  ELSE IF StrictEquals(Get(data, "dimension"), JsStr(MASS_DIMENSION)) THEN MassParse(data)
  ELSE IF StrictEquals(Get(data, "dimension"), JsStr(TIME_DIMENSION)) THEN TimeParse(data)
  ELSE IF StrictEquals(Get(data, "dimension"), JsStr(MONEY_DIMENSION))
    THEN MoneyParse(data, FALSE, t)
  ELSE Threw(Message("unrecognized/unsupported quantity dimension: ",
                     Value(Get(data, "dimension"))))

(***************************************************************************)
(* The calls a program makes, and their arguments                          *)
(***************************************************************************)
Dimensions == {LENGTH_DIMENSION, MASS_DIMENSION, TIME_DIMENSION, MONEY_DIMENSION}
\* the dimensions that have convert and normalize
Convertible == {LENGTH_DIMENSION, MASS_DIMENSION, TIME_DIMENSION}

\* the unit array of a dimension
UnitsOf(dim) ==
  CASE dim = LENGTH_DIMENSION -> LENGTH_UNITS
    [] dim = MASS_DIMENSION -> MASS_UNITS
    [] dim = TIME_DIMENSION -> TIME_UNITS
    [] dim = MONEY_DIMENSION -> MONEY_UNITS

\* the name of the property in which a dimension's tryParse returns the quantity
QuantityKey(dim) ==
  CASE dim = LENGTH_DIMENSION -> "length"
    [] dim = MASS_DIMENSION -> "mass"
    [] dim = TIME_DIMENSION -> "time"
    [] dim = MONEY_DIMENSION -> "money"

\* X.tryParse(data) for the class X of dimension dim
TryParseOf(dim, data, t) ==
  CASE dim = LENGTH_DIMENSION -> LengthTryParse(data)
    [] dim = MASS_DIMENSION -> MassTryParse(data)
    [] dim = TIME_DIMENSION -> TimeTryParse(data)
    [] dim = MONEY_DIMENSION -> MoneyTryParse(data, t)

\* X.parse(data) (Money: X.parse(data, onWarnings))
ParseOf(dim, data, onWarnings, t) ==
  CASE dim = LENGTH_DIMENSION -> LengthParse(data)
    [] dim = MASS_DIMENSION -> MassParse(data)
    [] dim = TIME_DIMENSION -> TimeParse(data)
    [] dim = MONEY_DIMENSION -> MoneyParse(data, onWarnings, t)

\* new X(value, unit)
NewOf(dim, value, unit) ==
  CASE dim = LENGTH_DIMENSION -> NewLength(value, unit)
    [] dim = MASS_DIMENSION -> NewMass(value, unit)
    [] dim = TIME_DIMENSION -> NewTime(value, unit)

\* X.convert(from, toUnit)
ConvertOf(dim, from, toUnit) ==
  CASE dim = LENGTH_DIMENSION -> LengthConvert(from, toUnit)
    [] dim = MASS_DIMENSION -> MassConvert(from, toUnit)
    [] dim = TIME_DIMENSION -> TimeConvert(from, toUnit)

\* X.normalize(items, toUnit)
NormalizeOf(dim, items, toUnit) ==
  CASE dim = LENGTH_DIMENSION -> LengthNormalize(items, toUnit)
    [] dim = MASS_DIMENSION -> MassNormalize(items, toUnit)
    [] dim = TIME_DIMENSION -> TimeNormalize(items, toUnit)

\* a field that the object does not have
Missing == [t |-> "none", b |-> FALSE, n |-> Absent, s |-> ""]

\* the object with the fields of c that are not Missing
ObjectOf(c) == ObjectData([key \in {x \in DOMAIN c : c[x] # Missing} |-> c[key]])

ValueChoices ==
  {Missing, JsNum(N(15)), JsNum(NaN), JsNum(NegZero), JsStr("15")}
UnitChoices ==
  {Missing, JsStr("Foot"), JsStr("Kilogram"), JsStr("Hour"), JsStr("USD"), JsNum(N(5))}
DimensionChoices ==
  {Missing, JsUndefined, JsStr("Length"), JsStr("Mass"), JsStr("Time"), JsStr("Money"),
   JsStr("Power")}
UpdatedAtChoices ==
  {JsNum(N(1000)), JsStr("1000"), JsStr("yesterday"), JsNull, JsBool(TRUE), JsNum(NaN),
   JsNum(Infinity), JsUndefined, JsObject}
  \cup {JsNum(N(t)) : t \in 1..MaxClock}

\* objects without updatedAt, among them {} and { nope: 'not a quantity object' }
PlainObjects ==
  {ObjectOf([value |-> v, unit |-> u, dimension |-> d]) :
     v \in ValueChoices, u \in UnitChoices, d \in DimensionChoices}
  \cup {ObjectOf([nope |-> JsStr("not a quantity object")])}

\* objects with updatedAt
StampedObjects ==
  {ObjectOf([value |-> v, unit |-> u, dimension |-> d, updatedAt |-> a]) :
     v \in {Missing, JsNum(N(15))}, u \in {JsStr("USD"), JsStr("Foot")},
     d \in {Missing, JsStr("Money"), JsStr("Length")}, a \in UpdatedAtChoices}

\* what is passed in place of an object
NonObjects == {Value(JsNull), Value(JsUndefined), Value(JsNum(N(15))), Value(JsBool(TRUE))}

\* texts that are not JSON: the empty text, a bare word, an unclosed object,
\* a trailing comma, a key that is no string, NaN as a value
MalformedTexts ==
  {TextData(<<>>),
   TextData(<<Bare("nope")>>),
   TextData(<<Punct("{")>>),
   TextData(<<Punct("{"), Lit(JsStr("value")), Punct(":"), Lit(JsNum(N(15))), Punct(","),
              Punct("}")>>),
   TextData(<<Punct("{"), Lit(JsNum(N(15))), Punct(":"), Lit(JsNum(N(15))), Punct("}")>>),
   TextData(<<Punct("{"), Lit(JsStr("value")), Punct(":"), Bare("NaN"), Punct("}")>>),
   TextData(<<Punct("{"), Punct("}"), Punct("}")>>)}

\* texts that are JSON but not the encoding of an object of the model: a
\* string, a repeated key, a nested object
OtherTexts ==
  {TextData(<<Lit(JsStr("Foot"))>>),
   TextData(<<Punct("{"), Lit(JsStr("value")), Punct(":"), Lit(JsStr("15")), Punct(","),
              Lit(JsStr("value")), Punct(":"), Lit(JsNum(N(15))), Punct(","),
              Lit(JsStr("unit")), Punct(":"), Lit(JsStr("Hour")), Punct(","),
              Lit(JsStr("dimension")), Punct(":"), Lit(JsStr("Time")), Punct("}")>>),
   TextData(<<Punct("{"), Lit(JsStr("value")), Punct(":"), Punct("{"),
              Lit(JsStr("value")), Punct(":"), Lit(JsNum(N(15))), Punct("}"), Punct(","),
              Lit(JsStr("unit")), Punct(":"), Lit(JsStr("Hour")), Punct("}")>>)}

\* the serialisable values among vs, as text
TextsOf(vs) == {TextData(JSONstringify(v)) : v \in {x \in vs : x.p.t # "undefined"}}

\* the arguments given to the parse and tryParse of a dimension
ParseInputs(dim) ==
  LET values == PlainObjects \cup NonObjects
                \cup (IF dim = MONEY_DIMENSION THEN StampedObjects ELSE {})
  IN values \cup TextsOf(values) \cup MalformedTexts \cup OtherTexts

\* the arguments given to parseQuantityJson
DispatchInputs ==
  PlainObjects \cup StampedObjects \cup {Value(JsNull)}
  \cup TextsOf(PlainObjects \cup StampedObjects)

\* the values of the quantities given to convert
ConvertValues == {PosZero, NegZero, N(1), N(15), N(-2), NaN, Infinity}
\* the values of the quantities in the lists given to normalize
NormalizeValues == {PosZero, N(15)}

\* the lists of at most n elements of S
Lists(S, n) == UNION {[1..m -> S] : m \in 0..n}

NoCall ==
  [op |-> "", dimension |-> "", data |-> NoData, onWarnings |-> FALSE, t |-> 0,
   from |-> NoQuantity, items |-> <<>>, toUnit |-> "", index |-> 0]

\* what the calling program holds: the quantities it has built or kept, in a
\* list; derived tells that they are results of calls of the library
NoneHeld == [items |-> <<>>, derived |-> FALSE]

(***************************************************************************)
(* The state machine: a program that calls the library                     *)
(***************************************************************************)
\* The module is loaded: the three factor tables are generated once.
Init ==
  /\ pc = "ready"
  /\ call = NoCall
  /\ ret = NoReturn
  /\ now = 1
  /\ factors = [Length |-> LENGTH_CONVERSION_FACTORS,
                Mass |-> MASS_CONVERSION_FACTORS,
                Time |-> TIME_CONVERSION_FACTORS]
  /\ held = NoneHeld

\* X.tryParse(data)
TryParseCall ==
  /\ pc = "ready"
  /\ \E dim \in Dimensions : \E data \in ParseInputs(dim) :
       /\ call' = [NoCall EXCEPT !.op = "tryParse", !.dimension = dim, !.data = data,
                                 !.t = now]
       /\ ret' = TryParseOf(dim, data, now)
  /\ pc' = "returned"
  /\ UNCHANGED <<now, factors, held>>

\* X.parse(data), and Money.parse(data, onWarnings) with and without a callback
ParseCall ==
  /\ pc = "ready"
  /\ \E dim \in Dimensions : \E data \in ParseInputs(dim) :
     \E onWarnings \in (IF dim = MONEY_DIMENSION THEN BOOLEAN ELSE {FALSE}) :
       /\ call' = [NoCall EXCEPT !.op = "parse", !.dimension = dim, !.data = data,
                                 !.onWarnings = onWarnings, !.t = now]
       /\ ret' = ParseOf(dim, data, onWarnings, now)
  /\ pc' = "returned"
  /\ UNCHANGED <<now, factors, held>>

\* parseQuantityJson(data)
ParseQuantityJsonCall ==
  /\ pc = "ready"
  /\ \E data \in DispatchInputs :
       /\ call' = [NoCall EXCEPT !.op = "parseQuantityJson", !.data = data, !.t = now]
       /\ ret' = parseQuantityJson(data, now)
  /\ pc' = "returned"
  /\ UNCHANGED <<now, factors, held>>

\* X.convert(new X(value, unit), toUnit)
ConvertCall ==
  /\ pc = "ready"
  /\ \E dim \in Convertible : \E value \in ConvertValues :
     \E unit \in Elements(UnitsOf(dim)) : \E toUnit \in Elements(UnitsOf(dim)) :
       /\ call' = [NoCall EXCEPT !.op = "convert", !.dimension = dim,
                                 !.from = NewOf(dim, value, unit), !.toUnit = toUnit,
                                 !.t = now]
       /\ ret' = Returned(ConvertOf(dim, NewOf(dim, value, unit), toUnit), <<>>)
  /\ pc' = "returned"
  /\ UNCHANGED <<now, factors, held>>

\* X.normalize(items, toUnit)
NormalizeCall ==
  /\ pc = "ready"
  /\ \E dim \in Convertible : \E toUnit \in Elements(UnitsOf(dim)) :
     \E items \in Lists({NewOf(dim, v, u) : v \in NormalizeValues,
                                            u \in Elements(UnitsOf(dim))}, MaxLen) :
       /\ call' = [NoCall EXCEPT !.op = "normalize", !.dimension = dim, !.items = items,
                                 !.toUnit = toUnit, !.t = now]
       /\ ret' = ReturnedList(NormalizeOf(dim, items, toUnit))
  /\ pc' = "returned"
  /\ UNCHANGED <<now, factors, held>>

\* the caller is done with what the call came to
Return ==
  /\ pc = "returned"
  /\ pc' = "ready"
  /\ call' = NoCall
  /\ ret' = NoReturn
  /\ UNCHANGED <<now, factors, held>>

\* time passes
Tick ==
  /\ pc = "ready"
  /\ now < MaxClock
  /\ now' = now + 1
  /\ UNCHANGED <<pc, call, ret, factors, held>>

\* a program that parses
Next == TryParseCall \/ ParseCall \/ ParseQuantityJsonCall \/ Return \/ Tick

Spec == Init /\ [][Next]_vars

\* a program that converts
NextConvert == ConvertCall \/ NormalizeCall \/ Return

SpecConvert == Init /\ [][NextConvert]_vars

(***************************************************************************)
(* A program that holds quantities: it builds them with the convenience    *)
(* constructors, assigns to their fields, gives them to the library and    *)
(* keeps what the library returns to call it again.                        *)
(***************************************************************************)
\* a faulty Length.Feet, whose unit is not the name in LENGTH_UNITS (C25
\* must tell it from the code's)
LengthFeetMisnamed(value) == NewLength(value, "Feet")

\* Length.Feet(value), Length.Kilometers(value), Mass.Kilograms(value),
\* Time.Hours(value); Money.USD(value, updatedAt), the updatedAt defaulting
\* to Date.now(), which reads t
LengthFeet(value) == NewLength(value, "Foot")
LengthKilometers(value) == NewLength(value, "Kilometer")
MassKilograms(value) == NewMass(value, "Kilogram")
TimeHours(value) == NewTime(value, "Hour")
MoneyUSD(value, updatedAt, t) ==
  NewMoney(value, "USD", IF updatedAt = Absent THEN N(t) ELSE updatedAt)

\* what the convenience constructors of a dimension build at time t
Built(dim, t) ==
  CASE dim = LENGTH_DIMENSION -> {LengthFeet(N(15)), LengthKilometers(N(15))}
    [] dim = MASS_DIMENSION -> {MassKilograms(N(15))}
    [] dim = TIME_DIMENSION -> {TimeHours(N(15))}
    [] dim = MONEY_DIMENSION -> {MoneyUSD(N(15), Absent, t), MoneyUSD(N(15), N(1000), t)}

\* a faulty assignment to value, which stamps the quantity as a setter
\* might (C23 must tell it from the code's)
AssignValueStamping(q, value) == [q EXCEPT !.value = value, !.updatedAt = PosZero]

\* q after q.value = value, and after q.updatedAt = updatedAt: value and
\* updatedAt are plain public properties
AssignValue(q, value) == [q EXCEPT !.value = value]
AssignUpdatedAt(q, updatedAt) == [q EXCEPT !.updatedAt = updatedAt]

\* a faulty convert, which converts its argument in place (C24 must tell it
\* from the code's)
LeftByConvertInPlace(from, toUnit) == [from EXCEPT !.unit = toUnit]

\* from after X.convert(from, toUnit), which reads from.value and from.unit
\* and assigns to neither
LeftByConvert(from, toUnit) == from

\* items after X.normalize(items, toUnit): map builds a new array, and
\* convert leaves each element
LeftByNormalize(items, toUnit) ==
  [i \in 1..Len(items) |-> LeftByConvert(items[i], toUnit)]

\* the quantities that a call returned
Results(r) ==
  IF r.qs # <<>> THEN r.qs
  ELSE IF r.q # NoQuantity THEN <<r.q>>
  ELSE IF r.obj.quantity # NoQuantity THEN <<r.obj.quantity>>
  ELSE <<>>

\* the list holds quantities of dimension dim only
AllOf(dim, items) == \A i \in 1..Len(items) : items[i].dimension = dim

\* a convenience constructor is called and its result is held; the program
\* holds at most one Money
ConstructCall ==
  /\ pc = "ready"
  /\ ~held.derived
  /\ Len(held.items) < MaxLen
  /\ \E dim \in Dimensions : \E q \in Built(dim, now) :
       /\ AllOf(dim, held.items)
       /\ dim = MONEY_DIMENSION => held.items = <<>>
       /\ call' = [NoCall EXCEPT !.op = "new", !.dimension = dim, !.items = held.items,
                                 !.t = now]
       /\ ret' = Returned(q, <<>>)
       /\ held' = [held EXCEPT !.items = Append(@, q)]
  /\ pc' = "returned"
  /\ UNCHANGED <<now, factors>>

\* m.value = 20
AssignValueStep ==
  /\ pc = "ready"
  /\ \E i \in 1..Len(held.items) :
       /\ held.items[i].dimension = MONEY_DIMENSION
       /\ call' = [NoCall EXCEPT !.op = "setValue", !.dimension = MONEY_DIMENSION,
                                 !.from = held.items[i], !.items = held.items,
                                 !.index = i, !.t = now]
       /\ held' = [held EXCEPT !.items[i] = AssignValue(@, N(20))]
  /\ ret' = NoReturn
  /\ pc' = "returned"
  /\ UNCHANGED <<now, factors>>

\* m.updatedAt = Date.now()
AssignUpdatedAtStep ==
  /\ pc = "ready"
  /\ \E i \in 1..Len(held.items) :
       /\ held.items[i].dimension = MONEY_DIMENSION
       /\ call' = [NoCall EXCEPT !.op = "setUpdatedAt", !.dimension = MONEY_DIMENSION,
                                 !.from = held.items[i], !.items = held.items,
                                 !.index = i, !.t = now]
       /\ held' = [held EXCEPT !.items[i] = AssignUpdatedAt(@, N(now))]
  /\ ret' = NoReturn
  /\ pc' = "returned"
  /\ UNCHANGED <<now, factors>>

\* a held quantity, or JSON.stringify of it, is given to its dimension's
\* tryParse or parse or to parseQuantityJson, which read it
ParseHeldCall ==
  /\ pc = "ready"
  /\ \E i \in 1..Len(held.items) :
     \E data \in {ObjectForm(held.items[i]),
                  TextData(JSONstringify(ObjectForm(held.items[i])))} :
     \E op \in {"tryParse", "parse", "parseQuantityJson"} :
       /\ call' = [NoCall EXCEPT !.op = op, !.dimension = held.items[i].dimension,
                                 !.data = data, !.from = held.items[i],
                                 !.items = held.items, !.index = i, !.t = now]
       /\ ret' = CASE op = "tryParse" -> TryParseOf(held.items[i].dimension, data, now)
                   [] op = "parse" -> ParseOf(held.items[i].dimension, data, FALSE, now)
                   [] op = "parseQuantityJson" -> parseQuantityJson(data, now)
  /\ pc' = "returned"
  /\ UNCHANGED <<now, factors, held>>

\* X.convert(items[i], toUnit) on a held quantity
ConvertHeldCall ==
  /\ pc = "ready"
  /\ \E i \in 1..Len(held.items) :
       /\ held.items[i].dimension \in Convertible
       /\ \E toUnit \in Elements(UnitsOf(held.items[i].dimension)) :
            /\ call' = [NoCall EXCEPT !.op = "convert",
                                      !.dimension = held.items[i].dimension,
                                      !.from = held.items[i], !.items = held.items,
                                      !.toUnit = toUnit, !.index = i, !.t = now]
            /\ ret' = Returned(ConvertOf(held.items[i].dimension, held.items[i], toUnit),
                               <<>>)
            /\ held' = [held EXCEPT !.items[i] = LeftByConvert(@, toUnit)]
  /\ pc' = "returned"
  /\ UNCHANGED <<now, factors>>

\* X.normalize(items, toUnit) on the held list
NormalizeHeldCall ==
  /\ pc = "ready"
  /\ held.items # <<>>
  /\ held.items[1].dimension \in Convertible
  /\ \E toUnit \in Elements(UnitsOf(held.items[1].dimension)) :
       /\ call' = [NoCall EXCEPT !.op = "normalize",
                                 !.dimension = held.items[1].dimension,
                                 !.items = held.items, !.toUnit = toUnit, !.t = now]
       /\ ret' = ReturnedList(NormalizeOf(held.items[1].dimension, held.items, toUnit))
       /\ held' = [held EXCEPT !.items = LeftByNormalize(@, toUnit)]
  /\ pc' = "returned"
  /\ UNCHANGED <<now, factors>>

\* the program keeps what the library returned in place of what it held
KeepStep ==
  /\ pc = "returned"
  /\ call.op \in {"tryParse", "parse", "parseQuantityJson", "convert", "normalize"}
  /\ ~held.derived
  /\ Results(ret) # <<>>
  /\ held' = [items |-> Results(ret), derived |-> TRUE]
  /\ pc' = "ready"
  /\ call' = NoCall
  /\ ret' = NoReturn
  /\ UNCHANGED <<now, factors>>

\* before it holds anything the program reads its input, which is arbitrary
ReadInputCall ==
  /\ held = NoneHeld
  /\ (TryParseCall \/ ParseCall \/ ParseQuantityJsonCall)

NextHeld ==
  \/ ConstructCall \/ AssignValueStep \/ AssignUpdatedAtStep \/ ReadInputCall
  \/ ParseHeldCall \/ ConvertHeldCall \/ NormalizeHeldCall \/ KeepStep \/ Return
  \/ Tick

SpecHeld == Init /\ [][NextHeld]_vars

(***************************************************************************)
(* A program that calls twice with the same arguments                      *)
(***************************************************************************)
\* the call c made again at time t
Redo(c, t) ==
  CASE c.op = "tryParse" -> TryParseOf(c.dimension, c.data, t)
    [] c.op = "parse" -> ParseOf(c.dimension, c.data, c.onWarnings, t)
    [] c.op = "convert" -> Returned(ConvertOf(c.dimension, c.from, c.toUnit), <<>>)
    [] c.op = "normalize" -> ReturnedList(NormalizeOf(c.dimension, c.items, c.toUnit))

\* time passes while the program has the result of a call
LaterStep ==
  /\ pc = "returned"
  /\ now < MaxClock
  /\ now' = now + 1
  /\ UNCHANGED <<pc, call, ret, factors, held>>

\* the program makes the call again, with the arguments it gave the first
\* time (call.t stays the time of the first call)
RepeatCall ==
  /\ pc = "returned"
  /\ call.op \in {"tryParse", "parse", "convert", "normalize"}
  /\ ret' = Redo(call, now)
  /\ pc' = "repeated"
  /\ UNCHANGED <<call, now, factors, held>>

\* the program is done with the result of the second call
DropStep ==
  /\ pc = "repeated"
  /\ pc' = "ready"
  /\ call' = NoCall
  /\ ret' = NoReturn
  /\ UNCHANGED <<now, factors, held>>

NextTwice ==
  \/ ReadInputCall \/ ConstructCall \/ ConvertHeldCall \/ NormalizeHeldCall
  \/ Return \/ Tick \/ LaterStep \/ RepeatCall \/ DropStep

SpecTwice == Init /\ [][NextTwice]_vars

(***************************************************************************)
(* Division in double precision (IEEE 754, round to nearest, ties to even) *)
(* for the quotients 1 / 7 / 24 / 60 / 60 of the Time table, where the     *)
(* last bit matters.  A double is m * 2^x, m being 53 bits, the first 1.   *)
(***************************************************************************)
\* the double 1
DoubleOne == [m |-> <<1>> \o [i \in 1..52 |-> 0], x |-> -52]

\* two runs of quotient bits, one after the other
Joined(left, right) == [q |-> left.q \o right.q, r |-> right.r]

RECURSIVE LongDivide(_, _, _, _, _), LongDivideRest(_, _, _, _, _)
\* the quotient bits of the bits lo..hi by d and the remainder left, r
\* being the remainder brought in: one bit is one step of long division,
\* a longer run is its first half, then its second half from where the
\* first ends
LongDivide(bits, d, lo, hi, r) ==
  IF lo = hi
    THEN IF 2 * r + bits[lo] >= d
           THEN [q |-> <<1>>, r |-> 2 * r + bits[lo] - d]
         ELSE [q |-> <<0>>, r |-> 2 * r + bits[lo]]
  ELSE LongDivideRest(bits, d, (lo + hi) \div 2, hi,
                      LongDivide(bits, d, lo, (lo + hi) \div 2, r))

LongDivideRest(bits, d, mid, hi, left) ==
  Joined(left, LongDivide(bits, d, mid + 1, hi, left.r))

\* the next double above a
Successor(a) ==
  IF \A i \in 1..Len(a.m) : a.m[i] = 1
    THEN [m |-> <<1>> \o [i \in 1..(Len(a.m) - 1) |-> 0], x |-> a.x + 1]
  ELSE LET k == CHOOSE i \in 1..Len(a.m) :
                  a.m[i] = 0 /\ \A j \in (i + 1)..Len(a.m) : a.m[j] = 1
       IN [m |-> [i \in 1..Len(a.m) |-> IF i < k THEN a.m[i] ELSE IF i = k THEN 1 ELSE 0],
           x |-> a.x]

\* the double that quotient bits q with remainder r round to, scale being
\* the exponent of the last bit of q
RoundQuotient(q, r, scale, p) ==
  LET f == CHOOSE i \in 1..Len(q) : q[i] = 1 /\ \A j \in 1..(i - 1) : q[j] = 0
      down == [m |-> SubSeq(q, f, f + p - 1), x |-> scale + Len(q) - (f + p - 1)]
      sticky == r # 0 \/ \E i \in (f + p + 1)..Len(q) : q[i] = 1
  IN IF q[f + p] = 1 /\ (sticky \/ q[f + p - 1] = 1) THEN Successor(down) ELSE down

\* a / d for a double a and an integer d, 1 <= d < 2^24
DoubleDivide(a, d) ==
  LET divided == LongDivide(a.m \o [i \in 1..32 |-> 0], d, 1, Len(a.m) + 32, 0)
  IN RoundQuotient(divided.q, divided.r, a.x - 32, Len(a.m))

RECURSIVE DivideAll(_, _, _)
\* a / ds[i] / ds[i + 1] / ..., evaluated from the left
DivideAll(a, ds, i) ==
  IF i > Len(ds) THEN a ELSE DivideAll(DoubleDivide(a, ds[i]), ds, i + 1)

\* the divisors with Second to Week written 1 / 7 / 24 / 60, a step short
TimeDivisorsMissingStep ==
  ("Day" :> ("Week" :> <<7>>))
  @@ ("Hour" :> (("Week" :> <<7, 24>>) @@ ("Day" :> <<24>>)))
  @@ ("Minute" :> (("Week" :> <<7, 24, 60>>) @@ ("Day" :> <<24, 60>>)
                   @@ ("Hour" :> <<60>>)))
  @@ ("Second" :> (("Week" :> <<7, 24, 60>>) @@ ("Day" :> <<24, 60, 60>>)
                   @@ ("Hour" :> <<60, 60>>) @@ ("Minute" :> <<60>>)))

\* the divisors of the entries of generateTimeConversionFactors from a
\* smaller unit to a larger, as written: Hour to Week is 1 / 7 / 24
TimeDivisors ==
  ("Day" :> ("Week" :> <<7>>))
  @@ ("Hour" :> (("Week" :> <<7, 24>>) @@ ("Day" :> <<24>>)))
  @@ ("Minute" :> (("Week" :> <<7, 24, 60>>) @@ ("Day" :> <<24, 60>>)
                   @@ ("Hour" :> <<60>>)))
  @@ ("Second" :> (("Week" :> <<7, 24, 60, 60>>) @@ ("Day" :> <<24, 60, 60>>)
                   @@ ("Hour" :> <<60, 60>>) @@ ("Minute" :> <<60>>)))

(***************************************************************************)
(* What the claims speak of                                                *)
(***************************************************************************)
\* a call of op has come back
Done(op) == pc = "returned" /\ call.op = op

\* what tryParse reads: the argument, JSON-decoded when it is a text
Decoded(data) == IF data.text THEN JSONparse(data.toks).o ELSE data

\* a text that JSON.parse rejects
BadSyntax(data) == data.text /\ ~JSONparse(data.toks).ok

\* the field key of the decoded argument o (undefined when o has none)
Field(o, key) ==
  IF o.p.t = "object" /\ key \in DOMAIN o.f THEN o.f[key] ELSE JsUndefined

\* the three conditions of a well-formed Length, Mass or Time input
ValueIsNumber(o) == Field(o, "value").t = "number"
UnitIsString(o) == Field(o, "unit").t = "string"
UnitIsMember(dim, o) == UnitIsString(o) /\ Field(o, "unit").s \in Elements(UnitsOf(dim))
DimensionIsTag(dim, o) == Field(o, "dimension").t = "string" /\ Field(o, "dimension").s = dim

\* the result object is a success, or is an error
IsSuccess(dim, obj) == QuantityKey(dim) \in obj.keys /\ "error" \notin obj.keys
IsError(dim, obj) == "error" \in obj.keys /\ QuantityKey(dim) \notin obj.keys

\* C1: for every dimension and every input (a text or a value, well-formed
\* or not, {} and null and malformed text among them) tryParse does not
\* raise, and what it returns is either an error result (an error property,
\* no quantity property) or a success result (the quantity property, no
\* error property), never both and never neither.
C1_TryParseNeverRaises ==
  Done("tryParse") =>
    /\ ~ret.threw
    /\ IsError(call.dimension, ret.obj) # IsSuccess(call.dimension, ret.obj)

\* tryParse(null) of some dimension came back with an error result
C1_Witness ==
  /\ Done("tryParse")
  /\ call.data = Value(JsNull)
  /\ call.dimension = MONEY_DIMENSION
  /\ IsError(call.dimension, ret.obj)

\* the outcome of a tryParse: success or failure, the quantity, the message
Outcome(r) ==
  [threw |-> r.threw, error |-> "error" \in r.obj.keys, message |-> r.obj.error,
   quantity |-> r.obj.quantity]

\* the first two parts of C2: success exactly for the well-formed inputs, and
\* then with the input's value and unit and the dimension's tag
C2_SuccessIffWellFormed ==
  (Done("tryParse") /\ call.dimension \in Convertible) =>
    LET o == Decoded(call.data)
        wellFormed == /\ ~BadSyntax(call.data)
                      /\ ValueIsNumber(o)
                      /\ UnitIsMember(call.dimension, o)
                      /\ DimensionIsTag(call.dimension, o)
    IN /\ IsSuccess(call.dimension, ret.obj) <=> wellFormed
       /\ IsSuccess(call.dimension, ret.obj) =>
            ret.obj.quantity = [dimension |-> call.dimension, value |-> Field(o, "value").n,
                                unit |-> Field(o, "unit").s, updatedAt |-> Absent]

\* tryParse of an object and of its JSON text come to the same
SameAsText ==
  Outcome(ret) = Outcome(TryParseOf(call.dimension, TextData(JSONstringify(call.data)), call.t))

\* C2 as stated: for Length, Mass and Time tryParse succeeds if and only if
\* (after JSON-decoding a text) value is a number, unit a string of UNITS and
\* dimension the tag; the quantity then has the input's value and unit and
\* the tag; and the outcome is the same for an object and for its JSON text.
C2_Original ==
  /\ C2_SuccessIffWellFormed
  /\ (Done("tryParse") /\ call.dimension \in Convertible /\ call.data.p.t = "object")
       => SameAsText

\* a value that JSON text cannot carry: NaN, an infinity, or -0
NotInJson(v) == v.t = "number" /\ (~IsFinite(v.n) \/ v.n = NegZero)

\* C2 as amended: ... the outcome is the same for an object and for its JSON
\* text unless the object's value is NaN, an infinity or -0 (JSON.stringify
\* writes these as null, null and 0).
C2_Amended ==
  /\ C2_SuccessIffWellFormed
  /\ (Done("tryParse") /\ call.dimension \in Convertible /\ call.data.p.t = "object"
        /\ ~NotInJson(Field(call.data, "value")))
       => SameAsText

\* Time.tryParse of the text of { dimension: 'Time', unit: 'Hour', value: 15 }
\* came back with that Time
C2_Witness ==
  /\ Done("tryParse")
  /\ call.dimension = TIME_DIMENSION
  /\ call.data.text
  /\ ret.obj.keys = {"time"}
  /\ ret.obj.quantity =
       [dimension |-> "Time", value |-> N(15), unit |-> "Hour", updatedAt |-> Absent]

\* updatedAt is there and is not a finite number
UpdatedAtFails(o) ==
  /\ o.p.t = "object"
  /\ "updatedAt" \in DOMAIN o.f
  /\ ~(o.f["updatedAt"].t = "number" /\ IsFinite(o.f["updatedAt"].n))

\* the earliest step that the input fails ("none" when it passes all)
FirstFailing(dim, data) ==
  LET o == Decoded(data)
  IN IF BadSyntax(data) THEN "syntax"
     ELSE IF ~ValueIsNumber(o) THEN "value"
     ELSE IF ~UnitIsString(o) THEN "unit"
     ELSE IF ~UnitIsMember(dim, o) THEN "member"
     ELSE IF dim = MONEY_DIMENSION /\ UpdatedAtFails(o) THEN "updatedAt"
     ELSE IF ~DimensionIsTag(dim, o) THEN "dimension"
     ELSE "none"

\* the step whose error the result object reports ("none" for a success)
Reported(dim, obj) ==
  LET text == obj.error.text
  IN IF "error" \notin obj.keys THEN "none"
     ELSE IF text \in {"invalid JSON", "invalid JSON: "} THEN "syntax"
     ELSE IF text = "data.value is non-numeric" THEN "value"
     ELSE IF text = "data.unit is missing or invalid" THEN "unit"
     ELSE IF text \in {"unsupported length unit", "unsupported length unit: ",
                       "unsupported currency (money unit)"} THEN "member"
     ELSE IF text = "data.updatedAt is non-numeric or invalid" THEN "updatedAt"
     ELSE IF text = "data.dimension is not " \o dim THEN "dimension"
     ELSE "other"

\* C3: tryParse validates in a fixed order and stops at the first failure:
\* the error it reports is the one of the earliest step the input fails, in
\* the order JSON syntax, value numeric, unit present and a string, unit a
\* member of the unit set, (Money only) updatedAt, dimension equal to the
\* tag; so a non-numeric value with a wrong dimension reports
\* data.value is non-numeric, and the dimension error is reported only when
\* every earlier step passes.
C3_ValidationOrder ==
  Done("tryParse") => Reported(call.dimension, ret.obj) = FirstFailing(call.dimension, call.data)

\* C4: for every dimension and input, parse raises exactly when tryParse
\* returns an error result, and with that result's error as its message;
\* otherwise parse returns the quantity tryParse returns (same value, unit,
\* dimension, and for Money updatedAt when the input gives it), and a parse
\* that raises returns nothing.  tryParse is taken at every clock reading.
C4_ParseRaisesIffTryParseError ==
  Done("parse") =>
    \A t \in 1..MaxClock :
      LET res == TryParseOf(call.dimension, call.data, t)
          given == "updatedAt" \in DOMAIN Decoded(call.data).f
      IN /\ ~res.threw
         /\ ret.threw <=> "error" \in res.obj.keys
         /\ ret.threw => (ret.message = res.obj.error /\ ret.q = NoQuantity)
         /\ ~ret.threw =>
              /\ ret.q.value = res.obj.quantity.value
              /\ ret.q.unit = res.obj.quantity.unit
              /\ ret.q.dimension = res.obj.quantity.dimension
              /\ given => ret.q.updatedAt = res.obj.quantity.updatedAt

\* Money.parse of an object with a unit that is no currency raised the error
\* that Money.tryParse returns for it
C4_Witness ==
  /\ Done("parse")
  /\ call.dimension = MONEY_DIMENSION
  /\ ret.threw
  /\ ret.message.text = "unsupported currency (money unit)"
  /\ MoneyTryParse(call.data, call.t).obj.error = ret.message

\* the known tags
KnownTags == {LENGTH_DIMENSION, MASS_DIMENSION, TIME_DIMENSION, MONEY_DIMENSION}

\* the object's dimension is one of the known tags
HasKnownTag(data) ==
  /\ data.p.t = "object"
  /\ "dimension" \in DOMAIN data.f
  /\ data.f["dimension"].t = "string"
  /\ data.f["dimension"].s \in KnownTags

\* C5: for an object whose dimension is one of the four known tags,
\* parseQuantityJson does what that dimension's parse does: it returns the
\* quantity that parse returns, of the dimension data.dimension and with the
\* input's unit and value, and raises with that parse's message when that
\* parse raises; the quantity it returns never has another dimension.
C5_DispatchIsParse ==
  (Done("parseQuantityJson") /\ HasKnownTag(call.data)) =>
    LET dim == call.data.f["dimension"].s
        parsed == ParseOf(dim, call.data, FALSE, call.t)
    IN /\ ret.threw = parsed.threw
       /\ ret.message = parsed.message
       /\ ret.q = parsed.q
       /\ ~ret.threw =>
            /\ ret.q.dimension = dim
            /\ ret.q.unit = Field(call.data, "unit").s
            /\ ret.q.value = Field(call.data, "value").n

\* parseQuantityJson returned the Mass of { dimension: 'Mass', unit:
\* 'Kilogram', value: 15 }
C5_Witness ==
  /\ Done("parseQuantityJson")
  /\ HasKnownTag(call.data)
  /\ ~ret.threw
  /\ ret.q = [dimension |-> "Mass", value |-> N(15), unit |-> "Kilogram", updatedAt |-> Absent]

\* the two messages of parseQuantityJson
MissingDimension == "quantity object does not contain required property \"dimension\""
UnrecognizedDimension == "unrecognized/unsupported quantity dimension: "

\* C6: parseQuantityJson raises and returns no quantity when the object has
\* no dimension field (the message names the missing field "dimension") and
\* when its dimension is none of the known tags (the message holds the
\* value); the two are told apart, and the first is reported only when the
\* field is absent.
C6_DispatchRaises ==
  (Done("parseQuantityJson") /\ call.data.p.t = "object") =>
    LET absent == "dimension" \notin DOMAIN call.data.f
    IN /\ absent =>
            /\ ret.threw
            /\ ret.q = NoQuantity
            /\ ret.message = Message(MissingDimension, NoData)
       /\ (~absent /\ ~HasKnownTag(call.data)) =>
            /\ ret.threw
            /\ ret.q = NoQuantity
            /\ ret.message = Message(UnrecognizedDimension, Value(call.data.f["dimension"]))
       /\ (ret.threw /\ ret.message.text = MissingDimension) => absent

\* parseQuantityJson of an object whose dimension is there and undefined
\* raised the error of an unrecognized dimension
C6_Witness ==
  /\ Done("parseQuantityJson")
  /\ "dimension" \in DOMAIN call.data.f
  /\ call.data.f["dimension"].t = "undefined"
  /\ ret.threw
  /\ ret.message.text = UnrecognizedDimension

\* C7: for Length, Mass and Time, for every quantity from with a unit of the
\* unit set and every toUnit of the unit set, convert(from, toUnit) returns
\* a new quantity with unit toUnit, the dimension's tag, and the value
\* from.value times the table's entry [from.unit][toUnit]; it does not raise.
C7_ConvertMultipliesByFactor ==
  Done("convert") =>
    /\ ~ret.threw
    /\ ret.q.unit = call.toUnit
    /\ ret.q.dimension = call.dimension
    /\ ret.q.value =
         Mul(call.from.value, factors[call.dimension][call.from.unit][call.toUnit])

\* Length.convert(new Length(15, 'Foot'), 'Inch') returned 180 inches
C7_Witness ==
  /\ Done("convert")
  /\ call.from = NewLength(N(15), "Foot")
  /\ call.toUnit = "Inch"
  /\ ret.q = NewLength(N(180), "Inch")

\* C8: for Length, Mass and Time, every unit U and every value V,
\* convert(new Quantity(V, U), U) has the dimension, unit and value of
\* new Quantity(V, U).
C8_ConvertToOwnUnit ==
  (Done("convert") /\ call.toUnit = call.from.unit) =>
    /\ ret.q.dimension = call.from.dimension
    /\ ret.q.unit = call.from.unit
    /\ ret.q.value = call.from.value

\* Time.convert(new Time(15, 'Week'), 'Week') returned 15 weeks
C8_Witness ==
  /\ Done("convert")
  /\ call.from = NewTime(N(15), "Week")
  /\ call.toUnit = "Week"
  /\ ret.q = NewTime(N(15), "Week")

\* C9: for Length, Mass and Time and every two units U1, U2,
\* convert(Quantity(0, U1), U2) is the quantity with value 0 and unit U2.
C9_ZeroConvertsToZero ==
  (Done("convert") /\ call.from.value = PosZero) =>
    ret.q = NewOf(call.dimension, PosZero, call.toUnit)

\* Mass.convert(new Mass(0, 'Gram'), 'Kilogram') returned 0 kilograms
C9_Witness ==
  /\ Done("convert")
  /\ call.from = NewMass(PosZero, "Gram")
  /\ call.toUnit = "Kilogram"
  /\ ret.q = NewMass(PosZero, "Kilogram")

\* C10: for Length, Mass and Time, every list q1..qn (n >= 0, of mixed
\* units) and every unit U, normalize([q1..qn], U) has n elements, each of
\* unit U, and its element i is convert(qi, U): nothing is reordered,
\* dropped, merged or aggregated.
C10_NormalizeMapsConvert ==
  Done("normalize") =>
    /\ ~ret.threw
    /\ Len(ret.qs) = Len(call.items)
    /\ \A i \in 1..Len(call.items) :
         /\ ret.qs[i].unit = call.toUnit
         /\ ret.qs[i] = ConvertOf(call.dimension, call.items[i], call.toUnit)

\* Length.normalize of 15 feet and 0 miles to inches returned 180 inches and
\* 0 inches
C10_Witness ==
  /\ Done("normalize")
  /\ call.items = <<NewLength(N(15), "Foot"), NewLength(PosZero, "Mile")>>
  /\ call.toUnit = "Inch"
  /\ ret.qs = <<NewLength(N(180), "Inch"), NewLength(PosZero, "Inch")>>

\* C11: each factor table is a complete square over the dimension's UNITS:
\* it has a row for every unit and for nothing else, every row has an entry
\* for every unit and for nothing else, every entry is a number, and every
\* entry from a unit to itself is exactly 1.
C11_TablesAreSquare ==
  \A dim \in Convertible :
    LET units == Elements(UnitsOf(dim))
        table == factors[dim]
    IN /\ DOMAIN table = units
       /\ \A from \in units :
            /\ DOMAIN table[from] = units
            /\ \A to \in units : table[from][to].k \in {"fin", "zero", "inf", "nan"}
            /\ table[from][from] = One

\* Length.convert read the entry from Nautical Mile to Inch of the table
C11_Witness ==
  /\ Done("convert")
  /\ call.from.unit = "Nautical Mile"
  /\ call.toUnit = "Inch"
  /\ factors.Length["Nautical Mile"]["Inch"].k = "fin"
  /\ ret.q.value = Mul(call.from.value, factors.Length["Nautical Mile"]["Inch"])

(***************************************************************************)
(* Closeness of numbers, measured on natural logarithms in millionths      *)
(***************************************************************************)
\* the natural logarithm of each prime of Primes, in millionths, rounded
LnMicro ==
  2 :> 693147 @@ 3 :> 1098612 @@ 5 :> 1609438 @@ 7 :> 1945910 @@
  11 :> 2397895 @@ 13 :> 2564949 @@ 17 :> 2833213 @@ 31 :> 3433987 @@
  73 :> 4290459 @@ 89 :> 4488636 @@ 97 :> 4574711 @@ 103 :> 4634729 @@
  127 :> 4844187 @@ 149 :> 5003946 @@ 251 :> 5525453 @@ 463 :> 6137727 @@
  641 :> 6463029 @@ 1301 :> 7170888 @@ 4139 :> 8328209 @@ 5167 :> 8550048 @@
  6073 :> 8711608 @@ 8893 :> 9093020 @@ 30091 :> 10311981 @@
  52583 :> 10870148 @@ 166667 :> 12023753 @@ 296719 :> 12600541 @@
  2663231 :> 14795051 @@ 16614203 :> 16625768

Abs(n) == IF n < 0 THEN -n ELSE n

RECURSIVE LnSum(_, _)
\* the sum of e[p] * LnMicro[p] over the primes p of ps
LnSum(e, ps) ==
  IF ps = {} THEN 0
  ELSE LET p == CHOOSE q \in ps : TRUE
       IN e[p] * LnMicro[p] + LnSum(e, ps \ {p})

RECURSIVE ExponentSum(_, _)
\* the sum of |e[p]| over the primes p of ps: a bound on the rounding error
\* of LnSum(e, ps), each logarithm being off by at most half a millionth
ExponentSum(e, ps) ==
  IF ps = {} THEN 0
  ELSE LET p == CHOOSE q \in ps : TRUE
       IN Abs(e[p]) + ExponentSum(e, ps \ {p})

\* x is 1 to within 0.1%: x is finite and positive and its logarithm, error
\* bound included, lies within 999 millionths of 0 (ln 1.001 is 999.5 and
\* ln 0.999 is -1000.5 millionths)
NearOne(x) ==
  /\ x.k = "fin"
  /\ x.s = 1
  /\ Abs(LnSum(x.e, DOMAIN x.e)) + ExponentSum(x.e, DOMAIN x.e) <= 999

\* x is not 1 to within 0.1%, error bound included
FarFromOne(x) ==
  \/ x.k # "fin"
  \/ x.s # 1
  \/ Abs(LnSum(x.e, DOMAIN x.e)) - ExponentSum(x.e, DOMAIN x.e) >= 1001

\* C12: for Length, Mass and Time and every two units U1, U2, converting a
\* value from U1 to U2 and back to U1 gives the value to within 0.1%: the
\* entries [U1][U2] and [U2][U1] of the table multiply to 1 within 0.1%.
C12_InverseConsistency ==
  Done("convert") =>
    LET table == factors[call.dimension]
        back == ConvertOf(call.dimension, ret.q, call.from.unit)
    IN /\ NearOne(Mul(table[call.from.unit][call.toUnit], table[call.toUnit][call.from.unit]))
       /\ call.from.value.k = "fin" => NearOne(Div(back.value, call.from.value))

\* C13: each table is consistent up to rounding: for every three units A, B,
\* C of a dimension the entries [A][B] and [B][C] multiply to the entry
\* [A][C] within 0.1%, so converting from A to C directly or through B gives
\* the same value within 0.1%.
C13_Transitivity ==
  Done("convert") =>
    LET table == factors[call.dimension]
        A == call.from.unit
        B == call.toUnit
    IN \A C \in Elements(UnitsOf(call.dimension)) :
         /\ NearOne(Div(Mul(table[A][B], table[B][C]), table[A][C]))
         /\ call.from.value.k = "fin" =>
              NearOne(Div(ConvertOf(call.dimension, ret.q, C).value,
                          ConvertOf(call.dimension, call.from, C).value))

\* the length of each unit in metres: 1 km = 1000 m = 100000 cm =
\* 1000000 mm, 1 nautical mile = 1852 m, 1 mile = 5280 ft = 1760 yd,
\* 1 yd = 3 ft, 1 ft = 12 in = 0.3048 m
Metres ==
  LET foot == Decimal(<<2, 2, 2, 3, 127>>, 4)
  IN ("Kilometer" :> N(1000)) @@ ("Meter" :> One)
     @@ ("Centimeter" :> Div(One, N(100))) @@ ("Millimeter" :> Div(One, N(1000)))
     @@ ("Nautical Mile" :> N(1852)) @@ ("Mile" :> Mul(N(5280), foot))
     @@ ("Yard" :> Mul(N(3), foot)) @@ ("Foot" :> foot) @@ ("Inch" :> Div(foot, N(12)))

\* C14: for every two Length units from and to, Nautical Mile among them,
\* Length.convert(new Length(1, from), to).value is the true ratio of the
\* units to within 0.1% (so 1 Kilometer is about 0.621371 Mile).
C14_LengthRatios ==
  (Done("convert") /\ call.dimension = LENGTH_DIMENSION /\ call.from.value = One) =>
    NearOne(Div(ret.q.value, Div(Metres[call.from.unit], Metres[call.toUnit])))

\* the mass of each unit in kilograms: 1 kg = 1000 g = 1000000 mg,
\* 1 tonne = 1000 kg, 1 lb = 0.45359237 kg = 16 oz, 1 short ton = 2000 lb,
\* 1 long ton = 2240 lb
Kilograms ==
  LET pound == Decimal(<<7, 11, 97, 6073>>, 8)
  IN ("Kilogram" :> One) @@ ("Gram" :> Div(One, N(1000)))
     @@ ("Milligram" :> Div(One, N(1000000))) @@ ("Short Ton" :> Mul(N(2000), pound))
     @@ ("Long Ton" :> Mul(N(2240), pound)) @@ ("Tonne" :> N(1000))
     @@ ("Pound" :> pound) @@ ("Ounce" :> Div(pound, N(16)))

\* C15: for every two Mass units from and to,
\* Mass.convert(new Mass(1, from), to).value is the true ratio of the units
\* to within 0.1% (so 1 Kilogram is about 2.2046226218 Pound).
C15_MassRatios ==
  (Done("convert") /\ call.dimension = MASS_DIMENSION /\ call.from.value = One) =>
    NearOne(Div(ret.q.value, Div(Kilograms[call.from.unit], Kilograms[call.toUnit])))

(***************************************************************************)
(* C16: the Time table in whole steps                                      *)
(***************************************************************************)
\* the Time units from the largest to the smallest and the step from each
\* to the next
TimeOrder == <<"Week", "Day", "Hour", "Minute", "Second">>
TimeSteps == <<7, 24, 60, 60>>
Rank(unit) == CHOOSE i \in 1..Len(TimeOrder) : TimeOrder[i] = unit

RECURSIVE StepsBetween(_, _)
\* the product of the steps from the unit of rank i down to that of rank j
StepsBetween(i, j) == IF i >= j THEN 1 ELSE TimeSteps[i] * StepsBetween(i + 1, j)

\* one unit of Time has been converted
OneOfTime ==
  Done("convert") /\ call.dimension = TIME_DIMENSION /\ call.from.value = One

\* the factor as the program computes it in double precision, and the
\* double nearest the reciprocal of the whole number of steps
AsWritten == DivideAll(DoubleOne, TimeDivisors[call.from.unit][call.toUnit], 1)
NearestReciprocal ==
  DoubleDivide(DoubleOne, StepsBetween(Rank(call.toUnit), Rank(call.from.unit)))

\* C16 as stated: one of a larger Time unit converts to exactly the product
\* of the steps 7, 24, 60, 60 down to the smaller unit, and one of a smaller
\* unit converts to the reciprocal of that integer, which in the program's
\* double precision is the double nearest to it
C16_TimeFactorsAreWhole ==
  OneOfTime =>
    LET i == Rank(call.from.unit)
        j == Rank(call.toUnit)
    IN /\ i < j => ret.q.value = N(StepsBetween(i, j))
       /\ i > j => /\ ret.q.value = Div(One, N(StepsBetween(j, i)))
                   /\ AsWritten = NearestReciprocal

\* C16 amended: toward a smaller unit the factor is exactly the product of
\* the steps; toward a larger unit it is the reciprocal of that product up
\* to the rounding of the chained divisions 1 / 7 / 24 / 60 / 60: the double
\* nearest the reciprocal for every pair except Minute to Day, where
\* 1 / 24 / 60 is the double just below the one nearest 1 / 1440
C16_Amended ==
  OneOfTime =>
    LET i == Rank(call.from.unit)
        j == Rank(call.toUnit)
    IN /\ i < j => ret.q.value = N(StepsBetween(i, j))
       /\ i > j => /\ ret.q.value = Div(One, N(StepsBetween(j, i)))
                   /\ IF call.from.unit = "Minute" /\ call.toUnit = "Day"
                        THEN Successor(AsWritten) = NearestReciprocal
                      ELSE AsWritten = NearestReciprocal

C16_Witness ==
  /\ OneOfTime /\ call.from.unit = "Minute" /\ call.toUnit = "Day"
  /\ ret.q.value = Div(One, N(1440))
  /\ AsWritten # NearestReciprocal

(***************************************************************************)
(* C17: what is serialised parses back                                     *)
(***************************************************************************)
\* quantities built by the constructors: any number is a value, and any
\* number an updatedAt
Constructed ==
  LET values == {v.n : v \in {x \in ValueChoices : x.t = "number"}}
      stamps == {a.n : a \in {x \in UpdatedAtChoices : x.t = "number"}}
  IN {NewLength(v, "Foot") : v \in values}
     \cup {NewMass(v, "Kilogram") : v \in values}
     \cup {NewTime(v, "Hour") : v \in values}
     \cup {NewMoney(N(15), "USD", a) : a \in stamps}

\* JSON.stringify(q), as the text given to a parser
Serialized(q) == TextData(JSONstringify(ObjectForm(q)))

\* the call parsed q's object form or its text: the dimension's parse did,
\* or parseQuantityJson
Reparsed(q, data) ==
  /\ call.data = data
  /\ \/ Done("parse") /\ call.dimension = q.dimension
     \/ Done("parseQuantityJson")

\* C17 as stated: the object form of a constructed quantity, and its text,
\* parse back (by the dimension's parse and by parseQuantityJson) to a
\* quantity equal to it in dimension, unit, value and updatedAt, without
\* warnings
C17_RoundTrip ==
  \A q \in Constructed :
    (Reparsed(q, ObjectForm(q)) \/ Reparsed(q, Serialized(q))) =>
      /\ ~ret.threw
      /\ ret.q = q
      /\ ret.callback = <<>>
      /\ TryParseOf(q.dimension, call.data, call.t).obj.warnings = <<>>

\* the quantity has a finite value and, if it has one, a finite updatedAt
IsFiniteQuantity(q) ==
  IsFinite(q.value) /\ (q.updatedAt # Absent => IsFinite(q.updatedAt))

\* q as it is read back from text, where -0 is written 0
FromText(q) == [q EXCEPT !.value = IF q.value = NegZero THEN PosZero ELSE q.value]

\* C17 amended: for a constructed quantity of finite value and (Money)
\* finite updatedAt, the object form given to the dimension's parse or to
\* parseQuantityJson, and the text given to the dimension's parse, yield a
\* quantity equal to it in dimension, unit, value and updatedAt, a value of
\* -0 coming back from text as 0, with no warnings; parseQuantityJson takes
\* the object form only and raises on text
C17_Amended ==
  \A q \in {x \in Constructed : IsFiniteQuantity(x)} :
    /\ Reparsed(q, ObjectForm(q)) =>
         /\ ~ret.threw
         /\ ret.q = q
         /\ ret.callback = <<>>
         /\ TryParseOf(q.dimension, call.data, call.t).obj.warnings = <<>>
    /\ Reparsed(q, Serialized(q)) =>
         IF Done("parseQuantityJson") THEN ret.threw
         ELSE /\ ~ret.threw
              /\ ret.q = FromText(q)
              /\ ret.callback = <<>>
              /\ TryParseOf(q.dimension, call.data, call.t).obj.warnings = <<>>

\* Money.parse with a callback returned the Money it read from the text of
\* new Money(15, 'USD', 1000)
C17_Witness ==
  /\ Done("parse") /\ call.onWarnings
  /\ call.data = Serialized(NewMoney(N(15), "USD", N(1000)))
  /\ ret = Returned(NewMoney(N(15), "USD", N(1000)), <<>>)

(***************************************************************************)
(* C18: the updatedAt of a Money                                           *)
(***************************************************************************)
\* Money.tryParse was given an input that passes the value, unit and
\* dimension checks
ValidMoneyGiven ==
  /\ Done("tryParse") /\ call.dimension = MONEY_DIMENSION
  /\ ~BadSyntax(call.data)
  /\ Decoded(call.data).p.t = "object"
  /\ ValueIsNumber(Decoded(call.data))
  /\ UnitIsMember(MONEY_DIMENSION, Decoded(call.data))
  /\ DimensionIsTag(MONEY_DIMENSION, Decoded(call.data))

\* C18: for a Money input that passes the value, unit and dimension checks,
\* when updatedAt is absent tryParse succeeds, the quantity's updatedAt is
\* the current time and the warnings are exactly one, of kind
\* "data.updatedAt is missing; using current timestamp", carrying that
\* updatedAt; when updatedAt is a finite number tryParse succeeds with no
\* warnings and the quantity's updatedAt is that number.
C18_UpdatedAtDefaults ==
  ValidMoneyGiven =>
    LET o == Decoded(call.data)
        given == Field(o, "updatedAt")
    IN /\ "updatedAt" \notin DOMAIN o.f =>
            /\ ~ret.threw /\ IsSuccess(MONEY_DIMENSION, ret.obj)
            /\ ret.obj.quantity.updatedAt = N(call.t)
            /\ ret.obj.warnings =
                 <<[warning |-> "data.updatedAt is missing; using current timestamp",
                    currentTimestamp |-> ret.obj.quantity.updatedAt]>>
       /\ ("updatedAt" \in DOMAIN o.f /\ given.t = "number" /\ IsFinite(given.n)) =>
            /\ ~ret.threw /\ IsSuccess(MONEY_DIMENSION, ret.obj)
            /\ ret.obj.warnings = <<>>
            /\ ret.obj.quantity.updatedAt = given.n

\* at time 2, Money.tryParse read a valid text without updatedAt and warned
\* with the timestamp 2
C18_Witness ==
  /\ ValidMoneyGiven /\ call.data.text /\ call.t = 2
  /\ "updatedAt" \notin DOMAIN Decoded(call.data).f
  /\ ret.obj.quantity = NewMoney(N(15), "USD", N(2))
  /\ Len(ret.obj.warnings) = 1
  /\ ret.obj.warnings[1].currentTimestamp = N(2)

(***************************************************************************)
(* C19: an updatedAt that is no finite number                              *)
(***************************************************************************)
\* C19: for a Money input whose value and unit are valid, when updatedAt is
\* present and is not a finite number (a string, numeric-looking or not, a
\* boolean, null, NaN, an infinity) tryParse returns the error
\* "data.updatedAt is non-numeric or invalid" and no quantity.
C19_UpdatedAtMustBeNumber ==
  ( /\ Done("tryParse") /\ call.dimension = MONEY_DIMENSION
    /\ ~BadSyntax(call.data)
    /\ ValueIsNumber(Decoded(call.data))
    /\ UnitIsMember(MONEY_DIMENSION, Decoded(call.data))
    /\ UpdatedAtFails(Decoded(call.data)) ) =>
      /\ ~ret.threw /\ IsError(MONEY_DIMENSION, ret.obj)
      /\ ret.obj.error = Message("data.updatedAt is non-numeric or invalid", NoData)
      /\ ret.obj.quantity = NoQuantity

(***************************************************************************)
(* C20: the callback of Money.parse                                        *)
(***************************************************************************)
\* C20: in the step in which Money.parse(data, onWarnings) runs, and so
\* before it returns, the callback is invoked exactly once, with the whole
\* warnings list, if and only if a callback is supplied and parsing succeeds
\* with a non-empty warnings list; it is not invoked when parsing fails or
\* the list is empty, it is invoked in no other step, and what parse
\* returns or raises is the same with and without a callback.
C20_CallbackOnWarnings ==
  [][LET parsing == /\ pc = "ready"
                    /\ call'.op = "parse"
                    /\ call'.dimension = MONEY_DIMENSION
         res == MoneyTryParse(call'.data, call'.t)
         warned == IsSuccess(MONEY_DIMENSION, res.obj) /\ res.obj.warnings # <<>>
     IN /\ (parsing /\ call'.onWarnings /\ warned) =>
             /\ pc' = "returned" /\ ~ret'.threw
             /\ ret'.callback = <<res.obj.warnings>>
        /\ ~(parsing /\ call'.onWarnings /\ warned) => ret'.callback = <<>>
        /\ parsing =>
             /\ ret'.threw = IsError(MONEY_DIMENSION, res.obj)
             /\ ret'.q = res.obj.quantity
             /\ ret'.threw => ret'.message = res.obj.error
    ]_vars

\* Money.parse called the callback once, with the one warning of the
\* missing updatedAt, and returned the Money
C20_Witness ==
  /\ Done("parse") /\ call.dimension = MONEY_DIMENSION /\ call.onWarnings
  /\ ~ret.threw /\ ret.q.unit = "USD"
  /\ Len(ret.callback) = 1
  /\ Len(ret.callback[1]) = 1
  /\ ret.callback[1][1].warning = "data.updatedAt is missing; using current timestamp"
  /\ ret.callback[1][1].currentTimestamp = ret.q.updatedAt

(***************************************************************************)
(* C21: a unit that is not of the dimension                                *)
(***************************************************************************)
\* the name of a dimension as the error kinds write it
NameOf(dim) ==
  CASE dim = LENGTH_DIMENSION -> "length"
    [] dim = MASS_DIMENSION -> "mass"
    [] dim = TIME_DIMENSION -> "time"
    [] dim = MONEY_DIMENSION -> "money"

\* tryParse was given a number as value and a string as unit that is not a
\* unit of the dimension
ForeignUnitGiven ==
  /\ Done("tryParse")
  /\ ~BadSyntax(call.data)
  /\ Decoded(call.data).p.t = "object"
  /\ ValueIsNumber(Decoded(call.data))
  /\ UnitIsString(Decoded(call.data))
  /\ ~UnitIsMember(call.dimension, Decoded(call.data))

\* C21: in every dimension, for a numeric value and a unit string that is
\* not in the dimension's unit set, tryParse returns the error "unsupported
\* <dimension> unit", <dimension> being length, mass, time or money for the
\* dimension parsed, and the error carries the unit string in its unit
\* property.
C21_UnsupportedUnit ==
  ForeignUnitGiven =>
    /\ ~ret.threw /\ IsError(call.dimension, ret.obj)
    /\ ret.obj.error = Message("unsupported " \o NameOf(call.dimension) \o " unit", NoData)
    /\ ret.obj.keys = {"error", "unit"}
    /\ ret.obj.ctx = Value(Field(Decoded(call.data), "unit"))

(***************************************************************************)
(* C22: text that is not JSON                                              *)
(***************************************************************************)
\* C22: in every dimension, for a text that is not syntactically valid
\* JSON, tryParse returns an error whose error property is exactly
\* "invalid JSON" and which carries the text given in a property of its
\* own, data.
C22_InvalidJsonCarriesInput ==
  (Done("tryParse") /\ BadSyntax(call.data)) =>
    /\ ~ret.threw /\ IsError(call.dimension, ret.obj)
    /\ ret.obj.error = Message("invalid JSON", NoData)
    /\ ret.obj.keys = {"error", "data"}
    /\ ret.obj.ctx = call.data

(***************************************************************************)
(* C26: the warning that is dropped with a wrong dimension                 *)
(***************************************************************************)
\* a Money input with a valid value and unit, no updatedAt and a dimension
\* other than Money
UnstampedOfOtherDimension(data) ==
  /\ ~BadSyntax(data)
  /\ Decoded(data).p.t = "object"
  /\ ValueIsNumber(Decoded(data))
  /\ UnitIsMember(MONEY_DIMENSION, Decoded(data))
  /\ "updatedAt" \notin DOMAIN Decoded(data).f
  /\ ~DimensionIsTag(MONEY_DIMENSION, Decoded(data))

\* C26: for a Money input with a valid value and unit, no updatedAt and a
\* dimension other than Money, tryParse returns the error
\* "data.dimension is not Money" alone, with no quantity and no warnings,
\* and Money.parse raises that error without calling the warnings callback.
C26_WarningDiscarded ==
  (call.dimension = MONEY_DIMENSION /\ UnstampedOfOtherDimension(call.data)) =>
    /\ Done("tryParse") =>
         /\ ~ret.threw /\ IsError(MONEY_DIMENSION, ret.obj)
         /\ ret.obj.error = Message("data.dimension is not Money", NoData)
         /\ ret.obj.keys = {"error", "dimension"}
         /\ ret.obj.quantity = NoQuantity
         /\ ret.obj.warnings = <<>>
    /\ Done("parse") =>
         /\ ret.threw
         /\ ret.message = Message("data.dimension is not Money", NoData)
         /\ ret.q = NoQuantity
         /\ ret.callback = <<>>

\* Money.parse, given a callback and { value: 15, unit: 'USD', dimension:
\* 'Length' }, raised and did not call it
C26_Witness ==
  /\ Done("parse") /\ call.dimension = MONEY_DIMENSION /\ call.onWarnings
  /\ UnstampedOfOtherDimension(call.data)
  /\ Field(Decoded(call.data), "dimension") = JsStr("Length")
  /\ ret.threw /\ ret.callback = <<>>

(***************************************************************************)
(* C27: what the error of the dimension check carries                      *)
(***************************************************************************)
\* tryParse of dim failed the dimension check
FailedDimensionCheck(dim) ==
  /\ Done("tryParse") /\ call.dimension = dim
  /\ ~ret.threw
  /\ ret.obj.error = Message("data.dimension is not " \o dim, NoData)

\* C27: for Length, Mass and Money, when tryParse fails the dimension check
\* the error's dimension property is the dimension found in the input (the
\* offending value, undefined when the input has none), not the tag of the
\* dimension parsed.
C27_DimensionErrorCarriesInput ==
  \A dim \in {LENGTH_DIMENSION, MASS_DIMENSION, MONEY_DIMENSION} :
    FailedDimensionCheck(dim) =>
      /\ ret.obj.keys = {"error", "dimension"}
      /\ ret.obj.ctx = Value(Field(Decoded(call.data), "dimension"))

(***************************************************************************)
(* C28: the errors that parseQuantityJson raises                           *)
(***************************************************************************)
\* the errors of the value, unit and updatedAt checks of a dimension, the
\* unit being what Time writes into its message
FieldErrors(dim, unit) ==
  {Message("data.value is non-numeric", NoData),
   Message("data.unit is missing or invalid", NoData)}
  \cup CASE dim = TIME_DIMENSION -> {Message("unsupported length unit: ", Value(unit))}
         [] dim = MONEY_DIMENSION ->
              {Message("unsupported currency (money unit)", NoData),
               Message("data.updatedAt is non-numeric or invalid", NoData)}
         [] OTHER -> {Message("unsupported length unit", NoData)}

\* C28: parseQuantityJson never raises "data.dimension is not <Dimension>":
\* for every object, when it raises, the error is that of the missing
\* dimension, that of the unrecognized dimension, or one of the value, unit
\* and updatedAt errors of the dimension that data.dimension names.
C28_DispatchNeverFailsDimension ==
  (Done("parseQuantityJson") /\ call.data.p.t = "object" /\ ret.threw) =>
    /\ \A dim \in KnownTags : ret.message.text # "data.dimension is not " \o dim
    /\ \/ ret.message = Message(MissingDimension, NoData)
       \/ /\ ~HasKnownTag(call.data)
          /\ ret.message = Message(UnrecognizedDimension, Value(Field(call.data, "dimension")))
       \/ /\ HasKnownTag(call.data)
          /\ ret.message \in FieldErrors(call.data.f["dimension"].s, Field(call.data, "unit"))

\* parseQuantityJson raised the updatedAt error of Money
C28_Witness ==
  /\ Done("parseQuantityJson") /\ call.data.p.t = "object" /\ ret.threw
  /\ Field(call.data, "dimension") = JsStr("Money")
  /\ ret.message = Message("data.updatedAt is non-numeric or invalid", NoData)

(***************************************************************************)
(* C29: when invalid JSON is reported                                      *)
(***************************************************************************)
\* C29: tryParse reports "invalid JSON" only for a text that fails to parse
\* as JSON: for an input that is no text (an object, or null, undefined, a
\* number or a boolean in place of one) and for a text that is valid JSON
\* (the text null among them) the result is never the error "invalid JSON";
\* when such an input is no quantity the error is one of the field checks.
C29_InvalidJsonOnlyForBadText ==
  (Done("tryParse") /\ ~BadSyntax(call.data)) =>
    /\ ~ret.threw
    /\ ret.obj.error.text \notin {"invalid JSON", "invalid JSON: "}
    /\ Decoded(call.data).p.t # "object" =>
         /\ IsError(call.dimension, ret.obj)
         /\ ret.obj.error.text = "data.value is non-numeric"

(***************************************************************************)
(* C23: the fields of a Money are assigned one by one                      *)
(***************************************************************************)
\* the operations of the library
LibraryOps == {"new", "tryParse", "parse", "parseQuantityJson", "convert", "normalize"}

\* C23: for each Money that the program holds, the step that assigns a new
\* value to it leaves its updatedAt, unit and dimension as they were, the
\* step that assigns a new updatedAt leaves its value (and unit and
\* dimension) as it was, and a step that calls the library (a constructor,
\* tryParse, parse, parseQuantityJson, convert, normalize) leaves its
\* updatedAt, and the whole of it, unchanged.
C23_MoneyFieldsIndependent ==
  [][\A i \in 1..Len(held.items) :
       (pc = "ready" /\ pc' = "returned" /\ held.items[i].dimension = MONEY_DIMENSION) =>
         /\ Len(held'.items) >= i
         /\ held'.items[i].unit = held.items[i].unit
         /\ held'.items[i].dimension = held.items[i].dimension
         /\ (call'.op = "setValue" /\ call'.index = i) =>
              /\ held'.items[i].value = N(20)
              /\ held'.items[i].updatedAt = held.items[i].updatedAt
         /\ (call'.op = "setUpdatedAt" /\ call'.index = i) =>
              held'.items[i].value = held.items[i].value
         /\ call'.op \in LibraryOps => held'.items[i] = held.items[i]
    ]_vars

\* at time 2 the program assigned 20 to the value of the Money.USD(15) it
\* had built at time 1, whose updatedAt is still 1
C23_Witness ==
  /\ Done("setValue") /\ call.t = 2
  /\ call.from = NewMoney(N(15), "USD", N(1))
  /\ held.items[call.index] = NewMoney(N(20), "USD", N(1))

(***************************************************************************)
(* C24: the tables and the arguments are only read                         *)
(***************************************************************************)
\* C24: whatever calls of convert, normalize, parse, tryParse and
\* parseQuantityJson have been made, each factor table is what it was when
\* the module was loaded; and the step that calls convert leaves the
\* quantity given with its value and unit, the step that calls normalize
\* leaves the list given with its length, order and elements, what is
\* returned being another quantity, or list, of the unit asked for.
C24_TablesAndArgumentsUnchanged ==
  /\ [](factors = [Length |-> generateLengthConversionFactors,
                   Mass |-> generateMassConversionFactors,
                   Time |-> generateTimeConversionFactors])
  /\ [][(pc = "ready" /\ call'.op \in {"convert", "normalize"}) =>
          /\ factors' = factors
          /\ held'.items = held.items
          /\ call'.op = "convert" =>
               /\ held'.items[call'.index].value = call'.from.value
               /\ held'.items[call'.index].unit = call'.from.unit
               /\ ret'.q.unit = call'.toUnit
          /\ call'.op = "normalize" =>
               /\ Len(ret'.qs) = Len(held.items)
               /\ \A i \in 1..Len(ret'.qs) : ret'.qs[i].unit = call'.toUnit
       ]_vars

\* Length.convert returned 15 feet in inches, the Length given being still
\* 15 feet
C24_Witness ==
  /\ Done("convert") /\ call.toUnit = "Inch"
  /\ call.from = NewLength(N(15), "Foot")
  /\ held.items[call.index] = NewLength(N(15), "Foot")
  /\ ret.q = NewLength(N(180), "Inch")

(***************************************************************************)
(* C25: the unit and the tag of every quantity                             *)
(***************************************************************************)
\* the quantity has the tag of a dimension and a unit of that dimension
WellTagged(q) ==
  /\ q.dimension \in KnownTags
  /\ q.unit \in Elements(UnitsOf(q.dimension))

ReadsClock(c) ==
  /\ c.dimension = MONEY_DIMENSION
  /\ ~BadSyntax(c.data)
  /\ Decoded(c.data).p.t = "object"
  /\ ValueIsNumber(Decoded(c.data))
  /\ UnitIsMember(MONEY_DIMENSION, Decoded(c.data))
  /\ DimensionIsTag(MONEY_DIMENSION, Decoded(c.data))
  /\ "updatedAt" \notin DOMAIN Decoded(c.data).f

====
